---- MODULE Spec2Model ----
(***************************************************************************)
(* Order ingestion-and-serving pipeline of wb_l0: the batching Kafka       *)
(* consumer with its transactional multi-table persistence, and the store  *)
(* read path that serves GetOrderByID.                                     *)
(***************************************************************************)
EXTENDS Integers, Sequences, FiniteSets, TLC

(* ------------------------------- bounds -------------------------------- *)

\* capacity of batchChan and maximum batch length (1000 in the source,
\* scaled down so that a full queue and a full batch are reachable)
batchSize == 2

\* number of messages the consumer reads from the topic partition
MaxTopic == 3

\* largest value of a PostgreSQL INTEGER column (2147483647 in the store,
\* scaled down to the range of the model's integers)
MaxInt4 == 1000

\* no restart of the consumer once the item sequence has passed this value
MaxItemSeq == 6

(* ------------------------------ documents ------------------------------ *)

ItemRequest(chrt, price) == [chrt_id |-> chrt, price |-> price]

OrderRequest(uid, track, sm, name, trans, amount, items) ==
    [order_uid |-> uid, track_number |-> track, sm_id |-> sm,
     delivery |-> [name |-> name],
     payment |-> [transaction |-> trans, amount |-> amount],
     items |-> items]

\* the value json.Unmarshal leaves in the target when the payload is not JSON
ZeroOrderRequest == OrderRequest("", "", 0, "", "", 0, <<>>)

\* message payloads: wellFormed says whether the bytes are a JSON document
Payload(doc) == [wellFormed |-> TRUE, doc |-> doc]

DocA1 == OrderRequest("a", "T1", 1, "n1", "a", 100, <<ItemRequest(1, 10), ItemRequest(2, 20)>>)
DocA2 == OrderRequest("a", "T2", 2, "n2", "a", 200, <<ItemRequest(3, 30)>>)
\* another order that names the payment transaction of order a
DocB1 == OrderRequest("b", "T3", 1, "n3", "a", 300, <<ItemRequest(4, 40)>>)
\* passes validation, payment.amount does not fit an INTEGER column
DocB2 == OrderRequest("b", "T4", 1, "n4", "b", MaxInt4 + 1, <<ItemRequest(5, 50)>>)
\* fails validation: no items
DocBad == OrderRequest("a", "T5", 1, "n5", "a", 100, <<>>)

Garbage == [wellFormed |-> FALSE, doc |-> ZeroOrderRequest]

Values == {Payload(DocA1), Payload(DocA2), Payload(DocB1), Payload(DocB2),
           Payload(DocBad), Garbage}

\* the payloads of the runs that explore the interleavings of the two loops
LoopValues == {Payload(DocA1), Payload(DocA2)}

OrderUIDs == {"a", "b"}

(* ------------------------------ validator ------------------------------ *)

ValidateMainOrder(order) ==
    /\ order.order_uid # ""
    /\ order.track_number # ""
    /\ order.sm_id > 0

ValidateDelivery(delivery) == delivery.name # ""

ValidatePayment(payment) ==
    /\ payment.transaction # ""
    /\ payment.amount >= 0

validateItem(item) ==
    /\ item.chrt_id > 0
    /\ item.price > 0

ValidateItems(items) ==
    /\ Len(items) # 0
    /\ \A i \in 1..Len(items) : validateItem(items[i])

\* TRUE iff the validator returns nil
ValidateOrderRequest(order) ==
    /\ ValidateMainOrder(order)
    /\ ValidateDelivery(order.delivery)
    /\ ValidatePayment(order.payment)
    /\ ValidateItems(order.items)

(* --------------------------- validator errors -------------------------- *)

\* an error value: its text and the sentinel errors errors.Is finds in its
\* chain; NoError is the nil error
NoError == [nil |-> TRUE, text |-> "", is |-> {}]

\* errors.New for a package-level sentinel
New(sentinel, text) == [nil |-> FALSE, text |-> text, is |-> {sentinel}]

ErrValidation == New("ErrValidation", "validation error")
ErrNotFound == New("ErrNotFound", "not found")

\* fmt.Errorf(text) without a %w verb
ErrorfText(text) == [nil |-> FALSE, text |-> text, is |-> {}]

\* fmt.Errorf("%w" + text, err)
Errorf(err, text) == [nil |-> FALSE, text |-> err.text \o text, is |-> err.is]

\* fmt.Errorf(prefix + "%w", err)
ErrorfPrefix(prefix, err) == [nil |-> FALSE, text |-> prefix \o err.text, is |-> err.is]

\* errors.Is(err, target) for a sentinel target
errorsIs(err, target) == ~err.nil /\ target.is \subseteq err.is

\* the first error of the sequence that is not nil
RECURSIVE FirstError(_)
FirstError(errors) ==
    IF errors = <<>> THEN NoError
    ELSE IF ~Head(errors).nil THEN Head(errors)
    ELSE FirstError(Tail(errors))

\* the longest order_uid the validators accept
MaxOrderUIDLength == 50
MaxTrackNumberLength == 50
MaxEntryLength == 10
MaxInternalSigLength == 100
MaxCustomerIDLength == 50
MaxDeliveryServiceLen == 50
MaxShardkeyLength == 10
MaxOofShardLength == 10
MaxDeliveryNameLength == 100
MaxDeliveryPhoneLength == 20
MaxDeliveryZipLength == 20
MaxDeliveryCityLength == 100
MaxDeliveryAddrLength == 200
MaxDeliveryRegionLength == 100
MaxDeliveryEmailLength == 255
MaxPaymentTransLength == 50
MaxPaymentReqIDLength == 50
MaxPaymentProviderLen == 50
MaxPaymentBankLength == 50
MaxItemTrackNumberLen == 50
MaxItemRidLength == 50
MaxItemNameLength == 200
MaxItemSizeLength == 10
MaxItemBrandLength == 100

Lower == {"a", "b", "c", "d", "e", "f", "g", "h", "i", "j", "k", "l", "m",
          "n", "o", "p", "q", "r", "s", "t", "u", "v", "w", "x", "y", "z"}

Upper == {"A", "B", "C", "D", "E", "F", "G", "H", "I", "J", "K", "L", "M",
          "N", "O", "P", "Q", "R", "S", "T", "U", "V", "W", "X", "Y", "Z"}

Digits == {"0", "1", "2", "3", "4", "5", "6", "7", "8", "9"}

\* the class \s
Space == {" ", "\t", "\n", "\f", "\r"}

\* utf8.RuneCountInString, for the ASCII strings of the model
RuneCountInString(s) == Len(s)

\* the characters of s
Chars(s) == {SubSeq(s, i, i) : i \in 1..Len(s)}

\* ^[class]+$
OneOrMore(s, class) == s # "" /\ Chars(s) \subseteq class

\* ^[a-zA-Z0-9_-]+$
orderUIDRegex(orderUID) == OneOrMore(orderUID, Lower \cup Upper \cup Digits \cup {"_", "-"})

\* ^[A-Z0-9]+$
trackNumberRegex(s) == OneOrMore(s, Upper \cup Digits)

\* ^[A-Z]+$
entryRegex(s) == OneOrMore(s, Upper)

\* ^[0-9]+$
shardkeyRegex(s) == OneOrMore(s, Digits)

\* ^[0-9]+$
oofShardRegex(s) == OneOrMore(s, Digits)

\* ^\+?[0-9\s\-\(\)]+$
phoneRegex(s) ==
    /\ s # ""
    /\ OneOrMore(IF Head(s) = "+" THEN Tail(s) ELSE s, Digits \cup Space \cup {"-", "(", ")"})

\* ^[0-9A-Za-z\-]+$
zipRegex(s) == OneOrMore(s, Digits \cup Upper \cup Lower \cup {"-"})

\* ^[a-zA-Z0-9._%+-]+@[a-zA-Z0-9.-]+\.[a-zA-Z]{2,}$ : at is the place of the
\* "@" and dot the place of the "." before the last label
emailRegex(s) ==
    \E at \in 1..Len(s), dot \in 1..Len(s) :
        /\ at < dot
        /\ SubSeq(s, at, at) = "@"
        /\ SubSeq(s, dot, dot) = "."
        /\ OneOrMore(SubSeq(s, 1, at - 1), Lower \cup Upper \cup Digits \cup {".", "_", "%", "+", "-"})
        /\ OneOrMore(SubSeq(s, at + 1, dot - 1), Lower \cup Upper \cup Digits \cup {".", "-"})
        /\ Len(s) - dot >= 2
        /\ OneOrMore(SubSeq(s, dot + 1, Len(s)), Lower \cup Upper)

\* ^[a-zA-Z0-9_-]+$
paymentTransRegex(s) == OneOrMore(s, Lower \cup Upper \cup Digits \cup {"_", "-"})

\* ^[a-zA-Z0-9_-]+$
itemRidRegex(s) == OneOrMore(s, Lower \cup Upper \cup Digits \cup {"_", "-"})

isValidLocale(locale) ==
    locale \in {"en", "ru", "es", "fr", "de", "it", "zh", "ja", "ko", "ar"}

isValidCurrency(currency) ==
    currency \in {"USD", "EUR", "RUB", "GBP", "JPY", "CNY", "CAD", "AUD", "CHF"}

\* instants are counted in hours from the zero time.Time
Hours(n) == n

\* Time.IsZero
IsZero(t) == t = 0

\* Time.Add
Add(t, d) == t + d

\* Time.After
After(t, u) == t > u

\* the error ValidateMainOrder returns when time.Now() is now
MainOrderError(order, now) ==
    IF order.order_uid = ""
    THEN Errorf(ErrValidation, ": order_uid is required")
    ELSE IF RuneCountInString(order.order_uid) > MaxOrderUIDLength
    THEN Errorf(ErrValidation, ": order_uid cannot be longer than " \o ToString(MaxOrderUIDLength) \o " characters")
    ELSE IF ~orderUIDRegex(order.order_uid)
    THEN Errorf(ErrValidation, ": order_uid contains invalid characters")
    ELSE IF order.track_number = ""
    THEN Errorf(ErrValidation, ": track_number is required")
    ELSE IF RuneCountInString(order.track_number) > MaxTrackNumberLength
    THEN Errorf(ErrValidation, ": track_number cannot be longer than " \o ToString(MaxTrackNumberLength) \o " characters")
    ELSE IF ~trackNumberRegex(order.track_number)
    THEN Errorf(ErrValidation, ": track_number can only contain uppercase letters and numbers")
    ELSE IF order.entry = ""
    THEN Errorf(ErrValidation, ": entry is required")
    ELSE IF RuneCountInString(order.entry) > MaxEntryLength
    THEN Errorf(ErrValidation, ": entry cannot be longer than " \o ToString(MaxEntryLength) \o " characters")
    ELSE IF ~entryRegex(order.entry)
    THEN Errorf(ErrValidation, ": entry can only contain uppercase letters")
    ELSE IF order.locale = ""
    THEN Errorf(ErrValidation, ": locale is required")
    ELSE IF ~isValidLocale(order.locale)
    THEN Errorf(ErrValidation, ": invalid locale value")
    ELSE IF RuneCountInString(order.internal_signature) > MaxInternalSigLength
    THEN Errorf(ErrValidation, ": internal_signature cannot be longer than " \o ToString(MaxInternalSigLength) \o " characters")
    ELSE IF order.customer_id = ""
    THEN Errorf(ErrValidation, ": customer_id is required")
    ELSE IF RuneCountInString(order.customer_id) > MaxCustomerIDLength
    THEN Errorf(ErrValidation, ": customer_id cannot be longer than " \o ToString(MaxCustomerIDLength) \o " characters")
    ELSE IF order.delivery_service = ""
    THEN Errorf(ErrValidation, ": delivery_service is required")
    ELSE IF RuneCountInString(order.delivery_service) > MaxDeliveryServiceLen
    THEN Errorf(ErrValidation, ": delivery_service cannot be longer than " \o ToString(MaxDeliveryServiceLen) \o " characters")
    ELSE IF order.shardkey = ""
    THEN Errorf(ErrValidation, ": shardkey is required")
    ELSE IF RuneCountInString(order.shardkey) > MaxShardkeyLength
    THEN Errorf(ErrValidation, ": shardkey cannot be longer than " \o ToString(MaxShardkeyLength) \o " characters")
    ELSE IF ~shardkeyRegex(order.shardkey)
    THEN Errorf(ErrValidation, ": shardkey can only contain numbers")
    ELSE IF order.sm_id =< 0
    THEN Errorf(ErrValidation, ": sm_id must be positive")
    ELSE IF order.oof_shard = ""
    THEN Errorf(ErrValidation, ": oof_shard is required")
    ELSE IF RuneCountInString(order.oof_shard) > MaxOofShardLength
    THEN Errorf(ErrValidation, ": oof_shard cannot be longer than " \o ToString(MaxOofShardLength) \o " characters")
    ELSE IF ~oofShardRegex(order.oof_shard)
    THEN Errorf(ErrValidation, ": oof_shard can only contain numbers")
    ELSE IF IsZero(order.date_created)
    THEN Errorf(ErrValidation, ": date_created is required")
    ELSE IF After(order.date_created, Add(now, Hours(24)))
    THEN Errorf(ErrValidation, ": date_created cannot be in the future")
    ELSE NoError

\* the error ValidateDelivery returns
DeliveryError(delivery) ==
    IF delivery.name = ""
    THEN Errorf(ErrValidation, ": delivery name is required")
    ELSE IF RuneCountInString(delivery.name) > MaxDeliveryNameLength
    THEN Errorf(ErrValidation, ": delivery name cannot be longer than " \o ToString(MaxDeliveryNameLength) \o " characters")
    ELSE IF delivery.phone = ""
    THEN Errorf(ErrValidation, ": delivery phone is required")
    ELSE IF RuneCountInString(delivery.phone) > MaxDeliveryPhoneLength
    THEN Errorf(ErrValidation, ": delivery phone cannot be longer than " \o ToString(MaxDeliveryPhoneLength) \o " characters")
    ELSE IF ~phoneRegex(delivery.phone)
    THEN Errorf(ErrValidation, ": delivery phone contains invalid characters")
    ELSE IF delivery.zip = ""
    THEN Errorf(ErrValidation, ": delivery zip is required")
    ELSE IF RuneCountInString(delivery.zip) > MaxDeliveryZipLength
    THEN Errorf(ErrValidation, ": delivery zip cannot be longer than " \o ToString(MaxDeliveryZipLength) \o " characters")
    ELSE IF ~zipRegex(delivery.zip)
    THEN Errorf(ErrValidation, ": delivery zip contains invalid characters")
    ELSE IF delivery.city = ""
    THEN Errorf(ErrValidation, ": delivery city is required")
    ELSE IF RuneCountInString(delivery.city) > MaxDeliveryCityLength
    THEN Errorf(ErrValidation, ": delivery city cannot be longer than " \o ToString(MaxDeliveryCityLength) \o " characters")
    ELSE IF delivery.address = ""
    THEN Errorf(ErrValidation, ": delivery address is required")
    ELSE IF RuneCountInString(delivery.address) > MaxDeliveryAddrLength
    THEN Errorf(ErrValidation, ": delivery address cannot be longer than " \o ToString(MaxDeliveryAddrLength) \o " characters")
    ELSE IF delivery.region = ""
    THEN Errorf(ErrValidation, ": delivery region is required")
    ELSE IF RuneCountInString(delivery.region) > MaxDeliveryRegionLength
    THEN Errorf(ErrValidation, ": delivery region cannot be longer than " \o ToString(MaxDeliveryRegionLength) \o " characters")
    ELSE IF delivery.email = ""
    THEN Errorf(ErrValidation, ": delivery email is required")
    ELSE IF RuneCountInString(delivery.email) > MaxDeliveryEmailLength
    THEN Errorf(ErrValidation, ": delivery email cannot be longer than " \o ToString(MaxDeliveryEmailLength) \o " characters")
    ELSE IF ~emailRegex(delivery.email)
    THEN Errorf(ErrValidation, ": delivery email is invalid")
    ELSE NoError

\* the error ValidatePayment returns
PaymentError(payment) ==
    IF payment.transaction = ""
    THEN Errorf(ErrValidation, ": payment transaction is required")
    ELSE IF RuneCountInString(payment.transaction) > MaxPaymentTransLength
    THEN Errorf(ErrValidation, ": payment transaction cannot be longer than " \o ToString(MaxPaymentTransLength) \o " characters")
    ELSE IF ~paymentTransRegex(payment.transaction)
    THEN Errorf(ErrValidation, ": payment transaction contains invalid characters")
    ELSE IF RuneCountInString(payment.request_id) > MaxPaymentReqIDLength
    THEN Errorf(ErrValidation, ": payment request_id cannot be longer than " \o ToString(MaxPaymentReqIDLength) \o " characters")
    ELSE IF payment.currency = ""
    THEN Errorf(ErrValidation, ": payment currency is required")
    ELSE IF ~isValidCurrency(payment.currency)
    THEN Errorf(ErrValidation, ": invalid payment currency")
    ELSE IF payment.provider = ""
    THEN Errorf(ErrValidation, ": payment provider is required")
    ELSE IF RuneCountInString(payment.provider) > MaxPaymentProviderLen
    THEN Errorf(ErrValidation, ": payment provider cannot be longer than " \o ToString(MaxPaymentProviderLen) \o " characters")
    ELSE IF payment.amount < 0
    THEN Errorf(ErrValidation, ": payment amount cannot be negative")
    ELSE IF payment.payment_dt =< 0
    THEN Errorf(ErrValidation, ": payment_dt must be positive")
    ELSE IF payment.bank = ""
    THEN Errorf(ErrValidation, ": payment bank is required")
    ELSE IF RuneCountInString(payment.bank) > MaxPaymentBankLength
    THEN Errorf(ErrValidation, ": payment bank cannot be longer than " \o ToString(MaxPaymentBankLength) \o " characters")
    ELSE IF payment.delivery_cost < 0
    THEN Errorf(ErrValidation, ": delivery_cost cannot be negative")
    ELSE IF payment.goods_total < 0
    THEN Errorf(ErrValidation, ": goods_total cannot be negative")
    ELSE IF payment.custom_fee < 0
    THEN Errorf(ErrValidation, ": custom_fee cannot be negative")
    ELSE NoError

\* the error validateItem returns for the item at index, counted from 0
ItemError(item, index) ==
    IF item.chrt_id =< 0
    THEN Errorf(ErrValidation, ": item[" \o ToString(index) \o "].chrt_id must be positive")
    ELSE IF item.track_number = ""
    THEN Errorf(ErrValidation, ": item[" \o ToString(index) \o "].track_number is required")
    ELSE IF RuneCountInString(item.track_number) > MaxItemTrackNumberLen
    THEN Errorf(ErrValidation, ": item[" \o ToString(index) \o "].track_number cannot be longer than " \o ToString(MaxItemTrackNumberLen) \o " characters")
    ELSE IF item.price =< 0
    THEN Errorf(ErrValidation, ": item[" \o ToString(index) \o "].price must be positive")
    ELSE IF item.rid = ""
    THEN Errorf(ErrValidation, ": item[" \o ToString(index) \o "].rid is required")
    ELSE IF RuneCountInString(item.rid) > MaxItemRidLength
    THEN Errorf(ErrValidation, ": item[" \o ToString(index) \o "].rid cannot be longer than " \o ToString(MaxItemRidLength) \o " characters")
    ELSE IF ~itemRidRegex(item.rid)
    THEN Errorf(ErrValidation, ": item[" \o ToString(index) \o "].rid contains invalid characters")
    ELSE IF item.name = ""
    THEN Errorf(ErrValidation, ": item[" \o ToString(index) \o "].name is required")
    ELSE IF RuneCountInString(item.name) > MaxItemNameLength
    THEN Errorf(ErrValidation, ": item[" \o ToString(index) \o "].name cannot be longer than " \o ToString(MaxItemNameLength) \o " characters")
    ELSE IF item.sale < 0
    THEN Errorf(ErrValidation, ": item[" \o ToString(index) \o "].sale cannot be negative")
    ELSE IF item.size = ""
    THEN Errorf(ErrValidation, ": item[" \o ToString(index) \o "].size is required")
    ELSE IF RuneCountInString(item.size) > MaxItemSizeLength
    THEN Errorf(ErrValidation, ": item[" \o ToString(index) \o "].size cannot be longer than " \o ToString(MaxItemSizeLength) \o " characters")
    ELSE IF item.total_price =< 0
    THEN Errorf(ErrValidation, ": item[" \o ToString(index) \o "].total_price must be positive")
    ELSE IF item.nm_id =< 0
    THEN Errorf(ErrValidation, ": item[" \o ToString(index) \o "].nm_id must be positive")
    ELSE IF item.brand = ""
    THEN Errorf(ErrValidation, ": item[" \o ToString(index) \o "].brand is required")
    ELSE IF RuneCountInString(item.brand) > MaxItemBrandLength
    THEN Errorf(ErrValidation, ": item[" \o ToString(index) \o "].brand cannot be longer than " \o ToString(MaxItemBrandLength) \o " characters")
    ELSE IF item.status < 0
    THEN Errorf(ErrValidation, ": item[" \o ToString(index) \o "].status cannot be negative")
    ELSE NoError

\* the error ValidateItems returns
ItemsError(items) ==
    IF Len(items) = 0
    THEN Errorf(ErrValidation, ": at least one item is required")
    ELSE FirstError([i \in 1..Len(items) |-> ItemError(items[i], i - 1)])

\* err with the prefix of the part of the order it was found in
Failed(prefix, err) == IF err.nil THEN NoError ELSE ErrorfPrefix(prefix, err)

\* the error ValidateOrderRequest returns when time.Now() is now
OrderRequestError(order, now) ==
    FirstError(<<MainOrderError(order, now),
                 Failed("delivery validation failed: ", DeliveryError(order.delivery)),
                 Failed("payment validation failed: ", PaymentError(order.payment)),
                 Failed("items validation failed: ", ItemsError(order.items))>>)

\* the error ValidateOrderUID returns
OrderUIDError(orderUID) ==
    IF orderUID = ""
    THEN ErrorfText("order UID cannot be empty")
    ELSE IF Len(orderUID) > MaxOrderUIDLength
    THEN ErrorfText("order UID too long")
    ELSE IF ~orderUIDRegex(orderUID)
    THEN Errorf(ErrValidation, ": order_uid contains invalid characters")
    ELSE NoError

(* --------------------------- validator inputs -------------------------- *)

RECURSIVE Repeat(_, _)
Repeat(s, n) ==
    IF n = 0 THEN ""
    ELSE IF n = 1 THEN s
    ELSE Repeat(s, n \div 2) \o Repeat(s, n - (n \div 2))

\* a string one character longer than max
TooLong(max) == Repeat("A", max + 1)

\* the values of time.Now()
Nows == {Hours(30), Hours(100)}

\* the zero time and instants around now and around a day after now
Dates(now) == {0, now - Hours(24), now - Hours(1), now, now + Hours(1),
               now + Hours(23), now + Hours(24), now + Hours(25), now + Hours(48)}

ValidDeliveryRequest ==
    [name |-> "Test Testov", phone |-> "+9720000000", zip |-> "2639809",
     city |-> "Kiryat Mozkin", address |-> "Ploshad Mira 15", region |-> "Kraiot",
     email |-> "test@gmail.com"]

ValidPaymentRequest ==
    [transaction |-> "test123-abc", request_id |-> "", currency |-> "USD",
     provider |-> "wbpay", amount |-> 1817, payment_dt |-> 1637907727,
     bank |-> "alpha", delivery_cost |-> 1500, goods_total |-> 317, custom_fee |-> 0]

ValidItemRequest ==
    [chrt_id |-> 9934930, track_number |-> "WBILMTESTTRACK", price |-> 453,
     rid |-> "ab4219087a764ae0btest", name |-> "Mascaras", sale |-> 30, size |-> "0",
     total_price |-> 317, nm_id |-> 2389212, brand |-> "Vivienne Sabo", status |-> 202]

\* a valid order created a day before now
ValidOrderRequest(now) ==
    [order_uid |-> "test123-abc_456", track_number |-> "WBILMTESTTRACK",
     entry |-> "WBIL", locale |-> "en", internal_signature |-> "",
     customer_id |-> "test_customer", delivery_service |-> "meest", shardkey |-> "9",
     sm_id |-> 99, date_created |-> now - Hours(24), oof_shard |-> "1",
     delivery |-> ValidDeliveryRequest, payment |-> ValidPaymentRequest,
     items |-> <<ValidItemRequest>>]

\* the valid order and the orders that differ from it in one root field
MainOrderInputs(now) ==
    {ValidOrderRequest(now)}
    \cup {[ValidOrderRequest(now) EXCEPT !.order_uid = v] : v \in {"", TooLong(MaxOrderUIDLength), "!"}}
    \cup {[ValidOrderRequest(now) EXCEPT !.track_number = v] : v \in {"", TooLong(MaxTrackNumberLength), "!"}}
    \cup {[ValidOrderRequest(now) EXCEPT !.entry = v] : v \in {"", TooLong(MaxEntryLength), "!"}}
    \cup {[ValidOrderRequest(now) EXCEPT !.locale = v] : v \in {"", "xx"}}
    \cup {[ValidOrderRequest(now) EXCEPT !.internal_signature = v] : v \in {TooLong(MaxInternalSigLength)}}
    \cup {[ValidOrderRequest(now) EXCEPT !.customer_id = v] : v \in {"", TooLong(MaxCustomerIDLength)}}
    \cup {[ValidOrderRequest(now) EXCEPT !.delivery_service = v] : v \in {"", TooLong(MaxDeliveryServiceLen)}}
    \cup {[ValidOrderRequest(now) EXCEPT !.shardkey = v] : v \in {"", TooLong(MaxShardkeyLength), "!"}}
    \cup {[ValidOrderRequest(now) EXCEPT !.sm_id = v] : v \in {0, -1}}
    \cup {[ValidOrderRequest(now) EXCEPT !.oof_shard = v] : v \in {"", TooLong(MaxOofShardLength), "!"}}
    \cup {[ValidOrderRequest(now) EXCEPT !.date_created = t] : t \in Dates(now)}

\* the valid delivery and the deliveries that differ from it in one field
DeliveryInputs ==
    {ValidDeliveryRequest}
    \cup {[ValidDeliveryRequest EXCEPT !.name = v] : v \in {"", TooLong(MaxDeliveryNameLength)}}
    \cup {[ValidDeliveryRequest EXCEPT !.phone = v] : v \in {"", TooLong(MaxDeliveryPhoneLength), "!", "+", "1+2", "+7 (900) 000-00"}}
    \cup {[ValidDeliveryRequest EXCEPT !.zip = v] : v \in {"", TooLong(MaxDeliveryZipLength), "!"}}
    \cup {[ValidDeliveryRequest EXCEPT !.city = v] : v \in {"", TooLong(MaxDeliveryCityLength)}}
    \cup {[ValidDeliveryRequest EXCEPT !.address = v] : v \in {"", TooLong(MaxDeliveryAddrLength)}}
    \cup {[ValidDeliveryRequest EXCEPT !.region = v] : v \in {"", TooLong(MaxDeliveryRegionLength)}}
    \cup {[ValidDeliveryRequest EXCEPT !.email = v] : v \in {"", TooLong(MaxDeliveryEmailLength), "!", "a@b.c", "a@.co", "@b.co", "a.b@c-d.org"}}

\* the valid payment and the payments that differ from it in one field
PaymentInputs ==
    {ValidPaymentRequest}
    \cup {[ValidPaymentRequest EXCEPT !.transaction = v] : v \in {"", TooLong(MaxPaymentTransLength), "!"}}
    \cup {[ValidPaymentRequest EXCEPT !.request_id = v] : v \in {TooLong(MaxPaymentReqIDLength)}}
    \cup {[ValidPaymentRequest EXCEPT !.currency = v] : v \in {"", "xx"}}
    \cup {[ValidPaymentRequest EXCEPT !.provider = v] : v \in {"", TooLong(MaxPaymentProviderLen)}}
    \cup {[ValidPaymentRequest EXCEPT !.amount = v] : v \in {-1}}
    \cup {[ValidPaymentRequest EXCEPT !.payment_dt = v] : v \in {0, -1}}
    \cup {[ValidPaymentRequest EXCEPT !.bank = v] : v \in {"", TooLong(MaxPaymentBankLength)}}
    \cup {[ValidPaymentRequest EXCEPT !.delivery_cost = v] : v \in {-1}}
    \cup {[ValidPaymentRequest EXCEPT !.goods_total = v] : v \in {-1}}
    \cup {[ValidPaymentRequest EXCEPT !.custom_fee = v] : v \in {-1}}

\* the valid item and the items that differ from it in one field
ItemInputs ==
    {ValidItemRequest}
    \cup {[ValidItemRequest EXCEPT !.chrt_id = v] : v \in {0, -1}}
    \cup {[ValidItemRequest EXCEPT !.track_number = v] : v \in {"", TooLong(MaxItemTrackNumberLen)}}
    \cup {[ValidItemRequest EXCEPT !.price = v] : v \in {0, -1}}
    \cup {[ValidItemRequest EXCEPT !.rid = v] : v \in {"", TooLong(MaxItemRidLength), "!"}}
    \cup {[ValidItemRequest EXCEPT !.name = v] : v \in {"", TooLong(MaxItemNameLength)}}
    \cup {[ValidItemRequest EXCEPT !.sale = v] : v \in {-1}}
    \cup {[ValidItemRequest EXCEPT !.size = v] : v \in {"", TooLong(MaxItemSizeLength)}}
    \cup {[ValidItemRequest EXCEPT !.total_price = v] : v \in {0, -1}}
    \cup {[ValidItemRequest EXCEPT !.nm_id = v] : v \in {0, -1}}
    \cup {[ValidItemRequest EXCEPT !.brand = v] : v \in {"", TooLong(MaxItemBrandLength)}}
    \cup {[ValidItemRequest EXCEPT !.status = v] : v \in {-1}}

\* no item, one item, and two items of which the second may be invalid
ItemsInputs ==
    {<<>>} \cup {<<item>> : item \in ItemInputs}
    \cup {<<ValidItemRequest, item>> : item \in ItemInputs}

\* orders that differ from the valid one in one root field or in one part,
\* and orders with an invalid root field and invalid parts
OrderInputs(now) ==
    MainOrderInputs(now)
    \cup {[ValidOrderRequest(now) EXCEPT !.delivery = d] : d \in DeliveryInputs}
    \cup {[ValidOrderRequest(now) EXCEPT !.payment = p] : p \in PaymentInputs}
    \cup {[ValidOrderRequest(now) EXCEPT !.items = items] : items \in ItemsInputs}
    \cup {[ValidOrderRequest(now) EXCEPT !.sm_id = 0, !.delivery.name = "", !.items = <<>>],
          [ValidOrderRequest(now) EXCEPT !.delivery.email = "!", !.payment.amount = -1],
          [ValidOrderRequest(now) EXCEPT !.payment.currency = "xx", !.items = <<>>]}

\* identifiers: well formed, of the greatest length, too long, empty, and
\* with a character outside the allowed set
OrderUIDInputs ==
    {"a", "test123-abc_456", Repeat("a", MaxOrderUIDLength), TooLong(MaxOrderUIDLength),
     "", "!", "invalid@uid#"}

(* -------------------------------- store -------------------------------- *)

\* the four tables, empty; orderSeq and itemSeq are the last identity values
\* handed out to rows that exist or existed in the committed store
EmptyDB == [order |-> {}, delivery |-> {}, payment |-> {}, item |-> {},
            orderSeq |-> 0, itemSeq |-> 0]

\* a transaction works on a private copy; a statement the server rejects
\* leaves it aborted, after which every statement fails and Commit rolls
\* back
\* log is the history of the statements issued in the transaction, cur the
\* offset of the message being processed
BeginTx(store) == [db |-> store, aborted |-> FALSE, log |-> <<>>, cur |-> -1]

\* a statement argument the driver cannot encode for an INTEGER column:
\* the statement fails before it is sent, the transaction stays usable
FitsInt4(n) == n <= MaxInt4

StmtResult(tx, err, id) == [tx |-> tx, err |-> err, id |-> id]

Abort(tx) == [tx EXCEPT !.aborted = TRUE]

\* history: the statement that returned r was issued for the current message
Issued(r, stmt, arg) ==
    [r EXCEPT !.tx.log = Append(@, [stmt |-> stmt, msg |-> r.tx.cur, arg |-> arg,
                                    err |-> r.err])]

\* INSERT INTO "order" ... ON CONFLICT (order_uid) DO UPDATE ... RETURNING id
saveMainOrder(tx, order, inject) ==
    IF tx.aborted THEN StmtResult(tx, TRUE, 0)
    ELSE IF ~FitsInt4(order.sm_id) THEN StmtResult(tx, TRUE, 0)
    ELSE IF inject THEN StmtResult(Abort(tx), TRUE, 0)
    ELSE LET existing == {r \in tx.db.order : r.order_uid = order.order_uid}
             newID == tx.db.orderSeq + 1
             row(id) == [id |-> id, order_uid |-> order.order_uid,
                         track_number |-> order.track_number,
                         sm_id |-> order.sm_id]
         IN IF existing = {}
            THEN StmtResult([tx EXCEPT !.db.order = @ \cup {row(newID)},
                                       !.db.orderSeq = newID], FALSE, newID)
            ELSE LET old == CHOOSE r \in existing : TRUE
                 IN StmtResult([tx EXCEPT !.db.order = (@ \ {old}) \cup {row(old.id)}],
                               FALSE, old.id)

\* INSERT INTO delivery ... ON CONFLICT (order_id) DO UPDATE
saveDelivery(tx, orderID, delivery, inject) ==
    IF tx.aborted THEN StmtResult(tx, TRUE, 0)
    ELSE IF inject THEN StmtResult(Abort(tx), TRUE, 0)
    ELSE LET others == {r \in tx.db.delivery : r.order_id # orderID}
             row == [order_id |-> orderID, name |-> delivery.name]
         IN StmtResult([tx EXCEPT !.db.delivery = others \cup {row}], FALSE, 0)

\* INSERT INTO payment ... ON CONFLICT (transaction) DO UPDATE SET order_id = ...
savePayment(tx, orderID, payment, inject) ==
    IF tx.aborted THEN StmtResult(tx, TRUE, 0)
    ELSE IF ~FitsInt4(payment.amount) THEN StmtResult(tx, TRUE, 0)
    ELSE IF inject THEN StmtResult(Abort(tx), TRUE, 0)
    ELSE LET others == {r \in tx.db.payment : r.transaction # payment.transaction}
             row == [order_id |-> orderID, transaction |-> payment.transaction,
                     amount |-> payment.amount]
         IN StmtResult([tx EXCEPT !.db.payment = others \cup {row}], FALSE, 0)

\* DELETE FROM item WHERE order_id = $1
deleteItems(tx, orderID, inject) ==
    IF tx.aborted THEN StmtResult(tx, TRUE, 0)
    ELSE IF inject THEN StmtResult(Abort(tx), TRUE, 0)
    ELSE StmtResult([tx EXCEPT !.db.item = {r \in @ : r.order_id # orderID}],
                    FALSE, 0)

\* INSERT INTO item ... for one item
insertItem(tx, orderID, item, inject) ==
    IF tx.aborted THEN StmtResult(tx, TRUE, 0)
    ELSE IF ~(FitsInt4(item.chrt_id) /\ FitsInt4(item.price)) THEN StmtResult(tx, TRUE, 0)
    ELSE IF inject THEN StmtResult(Abort(tx), TRUE, 0)
    ELSE LET newID == tx.db.itemSeq + 1
             row == [id |-> newID, order_id |-> orderID,
                     chrt_id |-> item.chrt_id, price |-> item.price]
         IN StmtResult([tx EXCEPT !.db.item = @ \cup {row},
                                  !.db.itemSeq = newID], FALSE, 0)

\* the insert loop of saveItems from item j on; the statement numbered
\* failStmt (4 + j for item j) is the one the server rejects, 0 for none
RECURSIVE insertItems(_, _, _, _, _)
insertItems(tx, orderID, items, j, failStmt) ==
    IF j > Len(items) THEN StmtResult(tx, FALSE, 0)
    ELSE LET r == Issued(insertItem(tx, orderID, items[j], failStmt = 4 + j),
                         "item", items[j].chrt_id)
         IN IF r.err THEN r
            ELSE insertItems(r.tx, orderID, items, j + 1, failStmt)

\* saveItems once the DELETE has returned d: its error is returned,
\* otherwise the insert loop runs
afterDelete(d, orderID, items, failStmt) ==
    IF d.err THEN d ELSE insertItems(d.tx, orderID, items, 1, failStmt)

\* saveItems without the DELETE of the old items
saveItemsAppend(tx, orderID, items, failStmt) ==
    insertItems(tx, orderID, items, 1, failStmt)

saveItems(tx, orderID, items, failStmt) ==
    afterDelete(Issued(deleteItems(tx, orderID, failStmt = 4), "delete", orderID),
                orderID, items, failStmt)

\* afterPayment going on to the items after a failed payment upsert
afterPaymentIgnoresError(p, orderID, order, failStmt) ==
    saveItems(p.tx, orderID, order.items, failStmt)

\* saveOrderToDB once savePayment has returned p
afterPayment(p, orderID, order, failStmt) ==
    IF p.err THEN p ELSE saveItems(p.tx, orderID, order.items, failStmt)

\* saveOrderToDB once saveDelivery has returned d
afterDelivery(d, orderID, order, failStmt) ==
    IF d.err THEN d
    ELSE afterPayment(Issued(savePayment(d.tx, orderID, order.payment, failStmt = 3),
                             "payment", order.payment.transaction),
                      orderID, order, failStmt)

\* saveOrderToDB once saveMainOrder has returned o, o.id the order's id
afterMainOrder(o, order, failStmt) ==
    IF o.err THEN o
    ELSE afterDelivery(Issued(saveDelivery(o.tx, o.id, order.delivery, failStmt = 2),
                              "delivery", o.id),
                       o.id, order, failStmt)

\* the four saves in turn, the first error returned
saveOrderToDB(tx, order, failStmt) ==
    afterMainOrder(Issued(saveMainOrder(tx, order, failStmt = 1),
                          "order", order.order_uid),
                   order, failStmt)

(* ------------------------- batch persistence --------------------------- *)

\* json.Unmarshal(msg.Value, &order)
Unmarshal(value) ==
    IF value.wellFormed THEN [err |-> FALSE, order |-> value.doc]
    ELSE [err |-> TRUE, order |-> ZeroOrderRequest]

\* processSingleMessage once saveOrderToDB has returned s
saved(s) == [tx |-> s.tx, result |-> IF s.err THEN "save" ELSE "ok"]

\* result is "unmarshal", "validation" or "save" for the error returned,
\* "ok" for nil
processSingleMessage(tx, msg, failStmt) ==
    LET u == Unmarshal(msg.value)
    IN IF u.err THEN [tx |-> tx, result |-> "unmarshal"]
       ELSE IF ~ValidateOrderRequest(u.order) THEN [tx |-> tx, result |-> "validation"]
       ELSE saved(saveOrderToDB([tx EXCEPT !.cur = msg.offset], u.order, failStmt))

\* what the environment does to one batch transaction
NoFault == [kind |-> "none", msg |-> 0, stmt |-> 0]
BeginFault == [kind |-> "begin", msg |-> 0, stmt |-> 0]
CommitFault == [kind |-> "commit", msg |-> 0, stmt |-> 0]
StmtFault(i, k) == [kind |-> "stmt", msg |-> i, stmt |-> k]

\* the statements saveOrderToDB issues for a message that reaches it
NumStmts(msg) ==
    LET u == Unmarshal(msg.value)
    IN IF u.err \/ ~ValidateOrderRequest(u.order) THEN 0
       ELSE 4 + Len(u.order.items)

Faults(messages) ==
    {NoFault, BeginFault, CommitFault} \cup
    UNION {{StmtFault(i, k) : k \in 1..NumStmts(messages[i])} : i \in 1..Len(messages)}

\* A rejected statement rolls the whole transaction back whichever statement
\* it is: the runs that explore the interleavings of the two loops let the
\* server reject the first statement of a message.
LoopFaults(messages) ==
    {NoFault, BeginFault, CommitFault} \cup
    {StmtFault(i, 1) : i \in 1..Len(messages)}

\* the loop of processMessageBatch from message i on: an error of one
\* message is logged and the loop goes on
\* the statement of message i the server rejects, 0 for none
FailStmt(fault, i) ==
    IF fault.kind = "stmt" /\ fault.msg = i THEN fault.stmt ELSE 0

RECURSIVE runMessages(_, _, _, _, _)
RECURSIVE nextMessage(_, _, _, _, _)

\* the loop once processSingleMessage has returned r for message i
nextMessage(r, messages, i, fault, results) ==
    runMessages(r.tx, messages, i + 1, fault, Append(results, r.result))

runMessages(tx, messages, i, fault, results) ==
    IF i > Len(messages) THEN [tx |-> tx, results |-> results]
    ELSE nextMessage(processSingleMessage(tx, messages[i], FailStmt(fault, i)),
                     messages, i, fault, results)

\* tx.Commit() after the loop: a transaction the server has aborted, or a
\* failing commit, leaves the store as it was
Commit(store, run, fault) ==
    IF run.tx.aborted \/ fault.kind = "commit"
    THEN [err |-> "commit", store |-> store, results |-> run.results,
          log |-> run.tx.log]
    ELSE [err |-> "none", store |-> run.tx.db, results |-> run.results,
          log |-> run.tx.log]

\* err is "begin" or "commit" for the error returned, "none" for nil
processMessageBatch(store, messages, fault) ==
    IF fault.kind = "begin"
    THEN [err |-> "begin", store |-> store, results |-> <<>>, log |-> <<>>]
    ELSE Commit(store, runMessages(BeginTx(store), messages, 1, fault, <<>>), fault)

(* ------------------------------ read path ------------------------------ *)

ZeroDelivery == [name |-> ""]
ZeroPayment == [transaction |-> "", amount |-> 0]

\* the item rows of an order, ORDER BY id
RECURSIVE itemsOrderedByID(_)
itemsOrderedByID(rows) ==
    IF rows = {} THEN <<>>
    ELSE LET first == CHOOSE r \in rows : \A q \in rows : r.id <= q.id
         IN <<[chrt_id |-> first.chrt_id, price |-> first.price]>>
            \o itemsOrderedByID(rows \ {first})

\* getOrderFromDB with a missing delivery row taken for a missing order
getOrderFromDBStrict(store, orderUID) ==
    LET roots == {r \in store.order : r.order_uid = orderUID}
    IN IF roots = {} THEN {[err |-> "notfound"]}
       ELSE LET root == CHOOSE r \in roots : TRUE
                dl == {r \in store.delivery : r.order_id = root.id}
                pm == {r \in store.payment : r.order_id = root.id}
                payments == IF pm = {} THEN {ZeroPayment}
                            ELSE {[transaction |-> r.transaction, amount |-> r.amount] : r \in pm}
                items == itemsOrderedByID({r \in store.item : r.order_id = root.id})
            IN IF dl = {} THEN {[err |-> "notfound"]}
               ELSE {[err |-> "none", id |-> root.id, order_uid |-> root.order_uid,
                      track_number |-> root.track_number, sm_id |-> root.sm_id,
                      delivery |-> [name |-> r.name], payment |-> p, items |-> items]
                     : r \in dl, p \in payments}

\* the set of results the four queries can yield on one snapshot (the
\* payment query has no ORDER BY: any payment row of the order may come first)
getOrderFromDB(store, orderUID) ==
    LET roots == {r \in store.order : r.order_uid = orderUID}
    IN IF roots = {} THEN {[err |-> "notfound"]}
       ELSE LET root == CHOOSE r \in roots : TRUE
                dl == {r \in store.delivery : r.order_id = root.id}
                pm == {r \in store.payment : r.order_id = root.id}
                deliveries == IF dl = {} THEN {ZeroDelivery}
                              ELSE {[name |-> r.name] : r \in dl}
                payments == IF pm = {} THEN {ZeroPayment}
                            ELSE {[transaction |-> r.transaction, amount |-> r.amount] : r \in pm}
                items == itemsOrderedByID({r \in store.item : r.order_id = root.id})
            IN {[err |-> "none", id |-> root.id, order_uid |-> root.order_uid,
                 track_number |-> root.track_number, sm_id |-> root.sm_id,
                 delivery |-> d, payment |-> p, items |-> items]
                : d \in deliveries, p \in payments}

(* ------------------------- lookup with cache --------------------------- *)

\* an identifier of 51 allowed characters
LongUID == "aaaaaaaaaaaaaaaaaaaaaaaaaaaaaaaaaaaaaaaaaaaaaaaaaaa"

\* the identifiers looked up: "a" and "b" are well formed, "!" has a
\* character outside the allowed set, "" is empty, LongUID is too long
LookupUIDs == {"a", "b", "!", "", LongUID}

\* "nil", "error" for an error that does not wrap ErrValidation,
\* "validation" for one that does
ValidateOrderUID(orderUID) ==
    IF orderUID = "" THEN "error"
    ELSE IF Len(orderUID) > MaxOrderUIDLength THEN "error"
    ELSE IF ~orderUIDRegex(orderUID) THEN "validation"
    ELSE "nil"

\* the *models.Order a lookup returns; NilOrder is the nil pointer
NilOrder == [nil |-> TRUE]

OrderOf(row) ==
    [id |-> row.id, order_uid |-> row.order_uid, track_number |-> row.track_number,
     sm_id |-> row.sm_id, delivery |-> row.delivery, payment |-> row.payment,
     items |-> row.items]

\* json.Marshal(order) and a payload json.Unmarshal rejects
MarshalOrder(order) == [wellFormed |-> TRUE, doc |-> order]

CorruptData == [wellFormed |-> FALSE, doc |-> NilOrder]

\* json.Unmarshal(data, &order)
UnmarshalOrder(data) ==
    IF data.wellFormed THEN [err |-> FALSE, order |-> data.doc]
    ELSE [err |-> TRUE, order |-> NilOrder]

\* the TTL of a cache entry, 7*24*time.Hour, in days
cacheTTL == 7

\* fmt.Sprintf("order:%s", orderUID)
cacheKey(orderUID) == <<"order:", orderUID>>

CacheKeys == {cacheKey(u) : u \in LookupUIDs}

\* a cache slot: ttl is the time the entry has left, in days
NoEntry == [present |-> FALSE, data |-> CorruptData, ttl |-> 0]

Entry(data, ttl) == [present |-> TRUE, data |-> data, ttl |-> ttl]

EmptyCache == [k \in CacheKeys |-> NoEntry]

\* what goes wrong during one lookup: the cache calls that fail and the
\* store call that fails
NoReadFault == [get |-> FALSE, del |-> FALSE, set |-> FALSE, store |-> "none"]

StoreCalls == {"begin", "order", "delivery", "payment", "items", "commit"}

\* at most one cache call and one store call fail during a lookup
ReadFaults ==
    {f \in [get : BOOLEAN, del : BOOLEAN, set : BOOLEAN,
            store : StoreCalls \cup {"none"}] :
        Cardinality({c \in {"get", "del", "set"} : f[c]}) <= 1}

\* redisDB.Get(ctx, cacheKey).Bytes(): "nil" is redis.Nil
redisGet(cache, key, fails) ==
    IF fails THEN [err |-> "error", data |-> CorruptData]
    ELSE IF ~cache[key].present THEN [err |-> "nil", data |-> CorruptData]
    ELSE [err |-> "none", data |-> cache[key].data]

\* redisDB.Del(ctx, cacheKey), its result ignored
redisDel(cache, key, fails) ==
    IF fails THEN cache ELSE [cache EXCEPT ![key] = NoEntry]

\* redisDB.Set(ctx, cacheKey, data, ttl).Err()
redisSet(cache, key, data, ttl, fails) ==
    IF fails THEN [err |-> TRUE, cache |-> cache]
    ELSE [err |-> FALSE, cache |-> [cache EXCEPT ![key] = Entry(data, ttl)]]

\* afterGet without the Del of an undecodable payload
afterGetKeepsEntry(cache, key, got, u, fault) ==
    IF got.err = "nil"
    THEN [err |-> "notfound", order |-> NilOrder, cache |-> cache, del |-> FALSE]
    ELSE IF got.err = "error"
    THEN [err |-> "redis", order |-> NilOrder, cache |-> cache, del |-> FALSE]
    ELSE IF u.err
    THEN [err |-> "unmarshal", order |-> NilOrder, cache |-> cache, del |-> FALSE]
    ELSE [err |-> "none", order |-> u.order, cache |-> cache, del |-> FALSE]

\* getOrderFromCache once Get has returned got and the payload is decoded
\* as u: an undecodable payload is deleted
afterGet(cache, key, got, u, fault) ==
    IF got.err = "nil"
    THEN [err |-> "notfound", order |-> NilOrder, cache |-> cache, del |-> FALSE]
    ELSE IF got.err = "error"
    THEN [err |-> "redis", order |-> NilOrder, cache |-> cache, del |-> FALSE]
    ELSE IF u.err
    THEN [err |-> "unmarshal", order |-> NilOrder,
          cache |-> redisDel(cache, key, fault.del), del |-> TRUE]
    ELSE [err |-> "none", order |-> u.order, cache |-> cache, del |-> FALSE]

decoded(cache, key, got, fault) ==
    afterGet(cache, key, got, UnmarshalOrder(got.data), fault)

getOrderFromCache(cache, orderUID, fault) ==
    decoded(cache, cacheKey(orderUID),
            redisGet(cache, cacheKey(orderUID), fault.get), fault)

InternalError == [err |-> "internal", order |-> NilOrder]

\* afterOrderQuery with pgx.ErrNoRows of the order query not recognised
afterOrderQueryNoRowsInternal(found, storeFault) ==
    IF found = {[err |-> "notfound"]}
    THEN {InternalError}
    ELSE IF storeFault \in {"delivery", "payment", "items", "commit"}
    THEN {InternalError}
    ELSE {[err |-> "none", order |-> OrderOf(row)] : row \in found}

\* getOrderFromDB once the order query has answered with found
afterOrderQuery(found, storeFault) ==
    IF found = {[err |-> "notfound"]}
    THEN {[err |-> "notfound", order |-> NilOrder]}
    ELSE IF storeFault \in {"delivery", "payment", "items", "commit"}
    THEN {InternalError}
    ELSE {[err |-> "none", order |-> OrderOf(row)] : row \in found}

\* getOrderFromDB with the store call storeFault failing: the set of
\* results it can return
getOrderFromDBOrFail(store, orderUID, storeFault) ==
    IF storeFault \in {"begin", "order"} THEN {InternalError}
    ELSE afterOrderQuery(getOrderFromDB(store, orderUID), storeFault)

\* saveOrderToCache with a TTL one day short
saveOrderToCacheShortTTL(cache, order, fails) ==
    redisSet(cache, cacheKey(order.order_uid), MarshalOrder(order), cacheTTL - 1, fails)

\* saveOrderToCache: the entry is written under the order's own order_uid
saveOrderToCache(cache, order, fails) ==
    redisSet(cache, cacheKey(order.order_uid), MarshalOrder(order), cacheTTL, fails)

\* the result of a lookup with what it did on the way: cacheErr is the
\* error of getOrderFromCache ("skipped" if it was not called), storeErr
\* that of getOrderFromDB, set is "ok" or "failed" for the cache write
Looked(err, order, cache, cacheErr, del, storeErr, set) ==
    [err |-> err, order |-> order, cache |-> cache, cacheErr |-> cacheErr,
     del |-> del, storeErr |-> storeErr, set |-> set, responses |-> <<>>]

\* afterSave with the error of the cache write returned to the caller
afterSaveFailsOnError(c, r, s) ==
    IF s.err
    THEN Looked("internal", NilOrder, s.cache, c.err, c.del, "none", "failed")
    ELSE Looked("none", r.order, s.cache, c.err, c.del, "none", "ok")

\* GetOrderByID of the repository once saveOrderToCache has returned s
afterSave(c, r, s) ==
    Looked("none", r.order, s.cache, c.err, c.del, "none",
           IF s.err THEN "failed" ELSE "ok")

\* GetOrderByID of the repository once getOrderFromDB has returned r
afterDB(c, r, fault) ==
    IF r.err # "none"
    THEN Looked(r.err, NilOrder, c.cache, c.err, c.del, r.err, "none")
    ELSE afterSave(c, r, saveOrderToCache(c.cache, r.order, fault.set))

\* afterCache with only a miss falling through to the store
afterCacheFailsOnError(c, store, orderUID, fault) ==
    IF c.err = "none"
    THEN {Looked("none", c.order, c.cache, "none", FALSE, "skipped", "none")}
    ELSE IF c.err = "redis"
    THEN {Looked("internal", NilOrder, c.cache, c.err, c.del, "skipped", "none")}
    ELSE {afterDB(c, r, fault) : r \in getOrderFromDBOrFail(store, orderUID, fault.store)}

\* GetOrderByID of the repository once getOrderFromCache has returned c
afterCache(c, store, orderUID, fault) ==
    IF c.err = "none"
    THEN {Looked("none", c.order, c.cache, "none", FALSE, "skipped", "none")}
    ELSE {afterDB(c, r, fault) : r \in getOrderFromDBOrFail(store, orderUID, fault.store)}

\* GetOrderByID reading the store whatever the cache holds
RepositoryGetOrderByIDReadThrough(cache, store, orderUID, fault) ==
    {afterDB([err |-> "notfound", order |-> NilOrder, cache |-> cache, del |-> FALSE],
             r, fault) : r \in getOrderFromDBOrFail(store, orderUID, fault.store)}

\* AppRepository.GetOrderByID: the set of results it can return
RepositoryGetOrderByID(cache, store, orderUID, fault) ==
    afterCache(getOrderFromCache(cache, orderUID, fault), store, orderUID, fault)

\* afterRepository with every error of the repository wrapped
afterRepositoryWrapsAll(r) ==
    IF r.err # "none"
    THEN [r EXCEPT !.err = "internal", !.order = NilOrder]
    ELSE r

\* AppUsecase.GetOrderByID once the repository has returned r: ErrNotFound
\* is returned as it is, any other error wrapped, both with a nil order
afterRepository(r) ==
    IF r.err = "notfound"
    THEN [r EXCEPT !.order = NilOrder]
    ELSE IF r.err # "none"
    THEN [r EXCEPT !.err = "internal", !.order = NilOrder]
    ELSE r

\* AppUsecase.GetOrderByID without the validation of the identifier
UsecaseGetOrderByIDUnvalidated(cache, store, orderUID, fault) ==
    {afterRepository(r) : r \in RepositoryGetOrderByID(cache, store, orderUID, fault)}

\* AppUsecase.GetOrderByID: the identifier is validated first and any error
\* of the validator is returned as one that wraps ErrValidation
UsecaseGetOrderByID(cache, store, orderUID, fault) ==
    IF ValidateOrderUID(orderUID) # "nil"
    THEN {Looked("validation", NilOrder, cache, "skipped", FALSE, "skipped", "none")}
    ELSE {afterRepository(r) : r \in RepositoryGetOrderByID(cache, store, orderUID, fault)}

(* ---------------------------- lookup over HTTP -------------------------- *)

StatusOK == 200
StatusBadRequest == 400
StatusNotFound == 404
StatusInternalServerError == 500

\* what DoBadResponseAndLog writes: the status line and BadResponse as JSON
BadResponse(statusCode, message) ==
    [status |-> statusCode, body |-> [status |-> statusCode, text |-> message]]

\* what DoJSONResponse writes
JSONResponse(responseData, successStatusCode) ==
    [status |-> successStatusCode, body |-> responseData]

\* AppDelivery.convertToResponse: the order without its internal id
convertToResponse(order) ==
    [order_uid |-> order.order_uid, track_number |-> order.track_number,
     sm_id |-> order.sm_id, delivery |-> order.delivery, payment |-> order.payment,
     items |-> order.items]

\* respond with a validation error of the usecase answered by 400
respondValidationAsBadRequest(r) ==
    IF r.err = "notfound"
    THEN <<BadResponse(StatusNotFound, "order not found")>>
    ELSE IF r.err = "validation"
    THEN <<BadResponse(StatusBadRequest, "order_uid is required")>>
    ELSE IF r.err # "none"
    THEN <<BadResponse(StatusInternalServerError, "internal server error")>>
    ELSE <<JSONResponse(convertToResponse(r.order), StatusOK)>>

\* AppDelivery.GetOrderByID once the usecase has returned r: the responses
\* written to the ResponseWriter
respond(r) ==
    IF r.err = "notfound"
    THEN <<BadResponse(StatusNotFound, "order not found")>>
    ELSE IF r.err # "none"
    THEN <<BadResponse(StatusInternalServerError, "internal server error")>>
    ELSE <<JSONResponse(convertToResponse(r.order), StatusOK)>>

\* AppDelivery.GetOrderByID: an empty order_uid is answered without a call
\* of the usecase (err "skipped")
DeliveryGetOrderByID(cache, store, orderUID, fault) ==
    IF orderUID = ""
    THEN {[Looked("skipped", NilOrder, cache, "skipped", FALSE, "skipped", "none")
             EXCEPT !.responses = <<BadResponse(StatusBadRequest, "order_uid is required")>>]}
    ELSE {[r EXCEPT !.responses = respond(r)] :
             r \in UsecaseGetOrderByID(cache, store, orderUID, fault)}

(* ------------------------------- state --------------------------------- *)

VARIABLES
    topic,            \* the messages read from the partition, by offset + 1
    enableAutoCommit, \* config.EnableAutoCommit
    stopChan,         \* "open" or "closed"
    consumerClosed,   \* the broker client has been closed
    position,         \* offset of the next message ReadMessage returns
    committed,        \* committed offset of the consumer group
    batchChan,        \* the bounded queue between the two loops
    pollPc,           \* messageLoop: "init", "select", "read", "push", "done"
    pollMsg,          \* the message messageLoop holds between read and push
    batchPc,          \* batchProcessor: "init", "loop", "done"
    batch,            \* the in-memory batch of batchProcessor
    stopPc,           \* Stop: "idle", "close", "wait", "returned"
    wg,               \* the WaitGroup counter
    store,            \* the committed content of the relational store
    lastTx,           \* history: the offsets of the last batch processed, the
                      \* fault its transaction met, the error returned,
                      \* whether a store write of one of its messages failed,
                      \* the statements issued in its transaction, and the
                      \* offsets handed to CommitOffsets (none: no call)
    outcome,          \* history: what became of the message at each offset
    usedAfterClose,   \* history: a read or offset commit hit the closed client
    cache,            \* the cache, by key
    lastRead,         \* history: the last lookup, what it found and what it did
    sinceWrite,       \* history: by key, the days since a lookup last wrote the
                      \* entry after a store read (-1: never, or corrupted since)
    prodPc,           \* Produce: "idle", "loop", "select", "wait", "sleep", "done"
    prodMsg,          \* the message Produce has built
    attempt,          \* the loop counter of produceWithRetry
    lastErr,          \* lastErr of produceWithRetry
    ctxDone,          \* the context of the call is done
    prodResult,       \* what Produce returned
    trail,            \* history: what became of each attempt
    elapsed,          \* seconds since Produce derived its context
    sentAt,           \* elapsed when the current attempt was submitted
    readPc,           \* a lookup in steps: "idle", "order", "delivery",
                      \* "payment", "items", "commit", "save", "returned"
    readUID,          \* the order_uid it looks up
    readOrder,        \* the *models.Order getOrderFromDB is filling
    readResult,       \* what the lookup returned, and from where
    versions,         \* history: the committed contents the store has had
                      \* since the lookup began its read transaction
    pwg,              \* the counter of the producer's WaitGroup
    drainPc,          \* the event-drain task: "run", "returned", "done"
    eventsClosed,     \* the client's Events channel has been closed
    closeOnce,        \* the producer's sync.Once: "new", "running", "done"
    closePc,          \* by caller of Close: "idle", "once", "flush", "close",
                      \* "chan", "wait", "returned"
    closeLog,         \* history: the Flush and Close calls on the client and
                      \* the close of deliveryChan, in order
    panicked,         \* history: a goroutine of the producer has panicked
    applied           \* history: the last call of a validator or of
                      \* ResponseErrorAndLog, its arguments and what it returned

consumerVars == <<topic, enableAutoCommit, stopChan, consumerClosed, position,
                  committed, batchChan, pollPc, pollMsg, batchPc, batch, stopPc,
                  wg, store, lastTx, outcome, usedAfterClose>>

lookupVars == <<cache, lastRead, sinceWrite>>

closeVars == <<pwg, drainPc, eventsClosed, closeOnce, closePc, closeLog, panicked>>

producerVars == <<prodPc, prodMsg, attempt, lastErr, ctxDone, prodResult, trail,
                  elapsed, sentAt, closeVars>>

readerVars == <<readPc, readUID, readOrder, readResult, versions>>

applyVars == <<applied>>

vars == <<consumerVars, lookupVars, producerVars, readerVars, applyVars>>

Offsets == 0..(MaxTopic - 1)

Message(o) == [offset |-> o, value |-> topic[o + 1]]

NoMsg == [offset |-> -1, value |-> Garbage]

NoTx == [offsets |-> <<>>, fault |-> "none", err |-> "none", writeFailed |-> FALSE,
         log |-> <<>>, commit |-> <<>>]

\* no lookup yet
\* the read transaction of a lookup: whether Begin gave one, its state
\* ("none", "open", "committed", "rolledback", or "failed" after a Commit
\* that returned an error), and how many calls ended it
NoReadTx == [begins |-> 0, state |-> "none", ends |-> 0]

NoRead ==
    [uid |-> "", level |-> "none", fault |-> NoReadFault, entryBefore |-> NoEntry,
     rowBefore |-> FALSE, age |-> -1, err |-> "none", order |-> NilOrder,
     cacheErr |-> "skipped", del |-> FALSE, storeErr |-> "skipped", set |-> "none",
     entryAfter |-> NoEntry, othersSame |-> TRUE, responses |-> <<>>,
     tx |-> NoReadTx]

\* nothing looked up and the cache empty
InitLookup ==
    /\ cache = EmptyCache
    /\ lastRead = NoRead
    /\ sinceWrite = [k \in CacheKeys |-> -1]

\* var lastErr error
NilErr == [kind |-> "nil", attempt |-> 0]

\* the number of goroutines that call Close
MaxClosers == 3

\* the goroutines that call Close
Closers == 1..MaxClosers

\* CreateProducer has called startDeliveryHandler: wg.Go has added the
\* drain task to the WaitGroup and started it
InitClose ==
    /\ pwg = 1
    /\ drainPc = "run"
    /\ eventsClosed = FALSE
    /\ closeOnce = "new"
    /\ closePc = [c \in Closers |-> "idle"]
    /\ closeLog = <<>>
    /\ panicked = FALSE

\* Produce not called
InitProducer ==
    /\ prodPc = "idle"
    /\ prodMsg = Garbage
    /\ attempt = 0
    /\ lastErr = NilErr
    /\ ctxDone = FALSE
    /\ prodResult = "none"
    /\ trail = <<>>
    /\ elapsed = 0
    /\ sentAt = 0
    /\ InitClose

\* no lookup in steps under way
NoResult == [err |-> "none", order |-> [nil |-> TRUE], from |-> "none"]

InitReader ==
    /\ readPc = "idle"
    /\ readUID = ""
    /\ readOrder = [nil |-> TRUE]
    /\ readResult = NoResult
    /\ versions = {}

\* the call of a function that has not been made
NotApplied == [fn |-> "none", arg |-> "", now |-> 0, result |-> ""]

\* no validator called
InitApply == applied = NotApplied

Init ==
    /\ InitLookup
    /\ InitProducer
    /\ InitReader
    /\ InitApply
    /\ topic = <<>>
    /\ enableAutoCommit = FALSE
    /\ stopChan = "open"
    /\ consumerClosed = FALSE
    /\ position = 0
    /\ committed = 0
    /\ batchChan = <<>>
    /\ pollPc = "init"
    /\ pollMsg = NoMsg
    /\ batchPc = "init"
    /\ batch = <<>>
    /\ stopPc = "idle"
    /\ wg = 0
    /\ store = EmptyDB
    /\ lastTx = NoTx
    /\ outcome = [o \in Offsets |-> "none"]
    /\ usedAfterClose = FALSE

(* ------------------------------ consumer ------------------------------- *)

\* Start: both loops are launched, each counted in the WaitGroup
Start ==
    /\ UNCHANGED <<lookupVars, producerVars, applyVars, readerVars>>
    /\ pollPc = "init"
    /\ pollPc' = "select"
    /\ batchPc' = "loop"
    /\ wg' = wg + 2
    /\ UNCHANGED <<topic, enableAutoCommit, stopChan, consumerClosed, position,
                   committed, batchChan, pollMsg, batch, stopPc, store, lastTx,
                   outcome, usedAfterClose>>

\* messageLoop, outer select: the stop case when stopChan is closed, the
\* default case otherwise
PollSelect ==
    /\ UNCHANGED <<lookupVars, producerVars, applyVars, readerVars>>
    /\ pollPc = "select"
    /\ IF stopChan = "closed"
       THEN pollPc' = "done" /\ wg' = wg - 1
       ELSE pollPc' = "read" /\ wg' = wg
    /\ UNCHANGED <<topic, enableAutoCommit, stopChan, consumerClosed, position,
                   committed, batchChan, pollMsg, batchPc, batch, stopPc, store,
                   lastTx, outcome, usedAfterClose>>

\* messageLoop, ReadMessage(pollTimeout): the next message of the
\* partition, one of values, or a timeout or error after which the loop
\* continues
PollReadFrom(values) ==
    /\ UNCHANGED <<lookupVars, producerVars, applyVars, readerVars>>
    /\ pollPc = "read"
    /\ IF consumerClosed
       THEN /\ usedAfterClose' = TRUE
            /\ pollPc' = "select"
            /\ UNCHANGED <<topic, pollMsg, position>>
       ELSE /\ UNCHANGED usedAfterClose
            /\ \/ /\ position < MaxTopic
                  /\ \E value \in values :
                        /\ topic' = Append(topic, value)
                        /\ pollMsg' = [offset |-> position, value |-> value]
                  /\ position' = position + 1
                  /\ pollPc' = "push"
               \/ /\ pollPc' = "select"
                  /\ UNCHANGED <<topic, pollMsg, position>>
    /\ UNCHANGED <<enableAutoCommit, stopChan, consumerClosed, committed,
                   batchChan, batchPc, batch, stopPc, wg, store, lastTx, outcome>>

PollRead == PollReadFrom(LoopValues)

\* the send on batchChan appends to the queue
push(queue, msg) == Append(queue, msg)

\* mutant of CanPush: the send never blocks
CanPushAlways(queue) == TRUE

\* the send goes through when the channel has room and blocks otherwise
CanPush(queue) == Len(queue) < batchSize

PollPush ==
    /\ UNCHANGED <<lookupVars, producerVars, applyVars, readerVars>>
    /\ pollPc = "push"
    /\ CanPush(batchChan)
    /\ batchChan' = push(batchChan, pollMsg)
    /\ pollMsg' = NoMsg
    /\ pollPc' = "select"
    /\ UNCHANGED <<topic, enableAutoCommit, stopChan, consumerClosed, position,
                   committed, batch, batchPc, stopPc, wg, store, lastTx, outcome,
                   usedAfterClose>>

\* commitOffsets committing the offsets of the messages themselves
commitOffsetsOfMessages(messages) == [i \in 1..Len(messages) |-> messages[i].offset]

\* the offsets commitOffsets hands to CommitOffsets
commitOffsets(messages) == [i \in 1..Len(messages) |-> messages[i].offset + 1]

\* what the history records for message i of a processed batch
Status(r, i) ==
    IF r.err = "begin" THEN "txfailed"
    ELSE IF r.results[i] \in {"unmarshal", "validation"} THEN "skipped"
    ELSE IF r.err = "commit" THEN "txfailed"
    ELSE IF r.results[i] = "save" THEN "partial"
    ELSE "ok"

\* whether batchProcessor goes on to commitOffsets after processMessageBatch
CommitsOffsetsAfter(err) == TRUE

\* afterBatch with the batch kept for another try when the transaction failed
afterBatchKeepsFailed(b, fault, r, offsets) ==
            /\ store' = r.store
            /\ lastTx' = [offsets |-> [i \in 1..Len(b) |-> b[i].offset],
                          fault |-> fault.kind, err |-> r.err, log |-> r.log,
                          commit |-> IF enableAutoCommit \/ ~CommitsOffsetsAfter(r.err)
                                     THEN <<>> ELSE offsets,
                          writeFailed |-> \E i \in 1..Len(r.results) :
                                             r.results[i] = "save"]
            /\ outcome' = [o \in Offsets |->
                             IF \E i \in 1..Len(b) : b[i].offset = o
                             THEN Status(r, CHOOSE i \in 1..Len(b) : b[i].offset = o)
                             ELSE outcome[o]]
            /\ IF enableAutoCommit \/ ~CommitsOffsetsAfter(r.err)
               THEN UNCHANGED <<committed, usedAfterClose>>
               ELSE IF consumerClosed
               THEN usedAfterClose' = TRUE /\ UNCHANGED committed
               ELSE committed' = offsets[Len(offsets)] /\ UNCHANGED usedAfterClose
            /\ batch' = IF r.err = "none" THEN <<>> ELSE b

\* processBatch once processMessageBatch has returned r: the error is
\* logged, the offsets are committed and the batch is reset
afterBatch(b, fault, r, offsets) ==
            /\ store' = r.store
            /\ lastTx' = [offsets |-> [i \in 1..Len(b) |-> b[i].offset],
                          fault |-> fault.kind, err |-> r.err, log |-> r.log,
                          commit |-> IF enableAutoCommit \/ ~CommitsOffsetsAfter(r.err)
                                     THEN <<>> ELSE offsets,
                          writeFailed |-> \E i \in 1..Len(r.results) :
                                             r.results[i] = "save"]
            /\ outcome' = [o \in Offsets |->
                             IF \E i \in 1..Len(b) : b[i].offset = o
                             THEN Status(r, CHOOSE i \in 1..Len(b) : b[i].offset = o)
                             ELSE outcome[o]]
            /\ IF enableAutoCommit \/ ~CommitsOffsetsAfter(r.err)
               THEN UNCHANGED <<committed, usedAfterClose>>
               ELSE IF consumerClosed
               THEN usedAfterClose' = TRUE /\ UNCHANGED committed
               ELSE committed' = offsets[Len(offsets)] /\ UNCHANGED usedAfterClose
            /\ batch' = <<>>

\* the closure processBatch of batchProcessor, on batch b
processBatch(b, fault) ==
    IF Len(b) = 0
    THEN /\ batch' = b
         /\ UNCHANGED <<store, committed, lastTx, outcome, usedAfterClose>>
    ELSE afterBatch(b, fault, processMessageBatch(store, b, fault), commitOffsets(b))

\* batchProcessor, case <-c.stopChan
BatchStop ==
    /\ UNCHANGED <<lookupVars, producerVars, applyVars, readerVars>>
    /\ batchPc = "loop"
    /\ stopChan = "closed"
    /\ \E fault \in LoopFaults(batch) : processBatch(batch, fault)
    /\ batchPc' = "done"
    /\ wg' = wg - 1
    /\ UNCHANGED <<topic, enableAutoCommit, stopChan, consumerClosed, position,
                   batchChan, pollPc, pollMsg, stopPc>>

\* batchProcessor, case msg := <-c.batchChan
BatchRecv ==
    /\ UNCHANGED <<lookupVars, producerVars, applyVars, readerVars>>
    /\ batchPc = "loop"
    /\ Len(batchChan) > 0
    /\ batchChan' = Tail(batchChan)
    /\ LET b == Append(batch, Head(batchChan))
       IN IF Len(b) >= batchSize
          THEN \E fault \in LoopFaults(b) : processBatch(b, fault)
          ELSE /\ batch' = b
               /\ UNCHANGED <<store, committed, lastTx, outcome, usedAfterClose>>
    /\ UNCHANGED <<topic, enableAutoCommit, stopChan, consumerClosed, position,
                   pollPc, pollMsg, batchPc, stopPc, wg>>

\* batchProcessor, case <-ticker.C
BatchTick ==
    /\ UNCHANGED <<lookupVars, producerVars, applyVars, readerVars>>
    /\ batchPc = "loop"
    /\ \E fault \in LoopFaults(batch) : processBatch(batch, fault)
    /\ UNCHANGED <<topic, enableAutoCommit, stopChan, consumerClosed, position,
                   batchChan, pollPc, pollMsg, batchPc, stopPc, wg>>

\* Stop, close(c.stopChan)
StopSignal ==
    /\ UNCHANGED <<lookupVars, producerVars, applyVars, readerVars>>
    /\ stopPc = "idle"
    /\ pollPc # "init"
    /\ stopChan' = "closed"
    /\ stopPc' = "close"
    /\ UNCHANGED <<topic, enableAutoCommit, consumerClosed, position, committed,
                   batchChan, pollPc, pollMsg, batchPc, batch, wg, store, lastTx,
                   outcome, usedAfterClose>>

\* Stop, c.consumer.Close(); with auto-commit the client commits the
\* offsets of the messages it has handed out
StopClose ==
    /\ UNCHANGED <<lookupVars, producerVars, applyVars, readerVars>>
    /\ stopPc = "close"
    /\ consumerClosed' = TRUE
    /\ committed' = IF enableAutoCommit THEN position ELSE committed
    /\ stopPc' = "wait"
    /\ UNCHANGED <<topic, enableAutoCommit, stopChan, position, batchChan, pollPc,
                   pollMsg, batchPc, batch, wg, store, lastTx, outcome,
                   usedAfterClose>>

\* Stop, c.wg.Wait()
StopWait ==
    /\ UNCHANGED <<lookupVars, producerVars, applyVars, readerVars>>
    /\ stopPc = "wait"
    /\ wg = 0
    /\ stopPc' = "returned"
    /\ UNCHANGED <<topic, enableAutoCommit, stopChan, consumerClosed, position,
                   committed, batchChan, pollPc, pollMsg, batchPc, batch, wg,
                   store, lastTx, outcome, usedAfterClose>>

Next ==
    \/ Start
    \/ PollSelect
    \/ PollRead
    \/ PollPush
    \/ BatchStop
    \/ BatchRecv
    \/ BatchTick
    \/ StopSignal
    \/ StopClose
    \/ StopWait

Spec == Init /\ [][Next]_vars

\* the consumer as configured: KAFKA_ENABLE_AUTO_COMMIT set or not
InitAutoCommit ==
    /\ InitLookup
    /\ InitProducer
    /\ InitReader
    /\ InitApply
    /\ topic = <<>>
    /\ enableAutoCommit \in BOOLEAN
    /\ stopChan = "open"
    /\ consumerClosed = FALSE
    /\ position = 0
    /\ committed = 0
    /\ batchChan = <<>>
    /\ pollPc = "init"
    /\ pollMsg = NoMsg
    /\ batchPc = "init"
    /\ batch = <<>>
    /\ stopPc = "idle"
    /\ wg = 0
    /\ store = EmptyDB
    /\ lastTx = NoTx
    /\ outcome = [o \in Offsets |-> "none"]
    /\ usedAfterClose = FALSE

\* the two loops and Stop under either setting of auto-commit
SpecAutoCommit == InitAutoCommit /\ [][Next]_vars

\* the payloads of the runs of the two loops with messages that fail to
\* deserialize or to validate
MixedValues == {Payload(DocA1), Payload(DocBad), Garbage}

NextMixed ==
    \/ Start
    \/ PollSelect
    \/ PollReadFrom(MixedValues)
    \/ PollPush
    \/ BatchStop
    \/ BatchRecv
    \/ BatchTick
    \/ StopSignal
    \/ StopClose
    \/ StopWait

\* the two loops and Stop on a topic that carries bad messages
SpecMixed == Init /\ [][NextMixed]_vars

\* One uninterrupted run of the two loops over the next k messages: the
\* messageLoop reads and queues them, batchProcessor receives them and
\* processes them as one batch (on reaching batchSize or on the ticker).
Ingest(k) ==
    /\ UNCHANGED <<lookupVars, producerVars, applyVars, readerVars>>
    /\ position + k <= MaxTopic
    /\ position' = position + k
    /\ \E values \in [1..k -> Values] :
          LET b == [i \in 1..k |-> [offset |-> position + i - 1, value |-> values[i]]]
          IN /\ topic' = topic \o values
             /\ \E fault \in Faults(b) : processBatch(b, fault)
    /\ UNCHANGED <<enableAutoCommit, stopChan, consumerClosed, batchChan,
                   pollPc, pollMsg, batchPc, stopPc, wg>>

NextStore == \E k \in 1..batchSize : Ingest(k)

\* the store as the consumer's batches build it up, every payload allowed
SpecStore == Init /\ [][NextStore]_vars

\* the valid documents that are delivered and delivered again
RedeliveredValues == {Payload(DocA1), Payload(DocA2), Payload(DocB1), Payload(DocB2)}

\* the messages at the offsets from first to last, as ReadMessage returns them
Messages(first, last) ==
    [i \in 1..(last - first + 1) |->
        [offset |-> first + i - 1, value |-> topic[first + i]]]

\* k new messages are read and processed as one batch whose writes,
\* transaction and offset commit meet no failure
Receive(k) ==
    /\ UNCHANGED <<lookupVars, producerVars, applyVars, readerVars>>
    /\ position = Len(topic)
    /\ position + k <= MaxTopic
    /\ position' = position + k
    /\ \E values \in [1..k -> RedeliveredValues] :
          /\ topic' = topic \o values
          /\ processBatch([i \in 1..k |-> [offset |-> position + i - 1,
                                             value |-> values[i]]], NoFault)
    /\ UNCHANGED <<enableAutoCommit, stopChan, consumerClosed, batchChan,
                   pollPc, pollMsg, batchPc, stopPc, wg>>

\* the consumer starts again at an earlier offset c: the offset commits of
\* the batches from c on have not reached the broker
Restart(c) ==
    /\ UNCHANGED <<lookupVars, producerVars, applyVars, readerVars>>
    /\ position = Len(topic)
    /\ c < position
    /\ store.itemSeq <= MaxItemSeq
    /\ position' = c
    /\ committed' = c
    /\ UNCHANGED <<topic, enableAutoCommit, stopChan, consumerClosed, batchChan,
                   pollPc, pollMsg, batchPc, batch, stopPc, wg, store, lastTx,
                   outcome, usedAfterClose>>

\* the next k messages of the topic are read and processed once more
Redeliver(k) ==
    /\ UNCHANGED <<lookupVars, producerVars, applyVars, readerVars>>
    /\ position + k <= Len(topic)
    /\ position' = position + k
    /\ processBatch(Messages(position, position + k - 1), NoFault)
    /\ UNCHANGED <<topic, enableAutoCommit, stopChan, consumerClosed, batchChan,
                   pollPc, pollMsg, batchPc, stopPc, wg>>

NextRedelivery ==
    \/ \E k \in 1..batchSize : Receive(k)
    \/ \E c \in Offsets : Restart(c)
    \/ \E k \in 1..batchSize : Redeliver(k)

\* valid messages processed, and processed again after a restart
SpecRedelivery == Init /\ [][NextRedelivery]_vars

(* ------------------------------ lookups -------------------------------- *)

\* the call of GetOrderByID at the given level
GetOrderByID(level, orderUID, fault) ==
    IF level = "delivery"
    THEN DeliveryGetOrderByID(cache, store, orderUID, fault)
    ELSE IF level = "usecase"
    THEN UsecaseGetOrderByID(cache, store, orderUID, fault)
    ELSE RepositoryGetOrderByID(cache, store, orderUID, fault)

\* getOrderFromDBCalls without the deferred Rollback
getOrderFromDBCallsNoDefer(storeErr, storeFault) ==
    IF storeFault = "begin" THEN <<"Begin">>
    ELSE IF storeErr = "notfound" \/ storeFault \in {"order", "delivery", "payment", "items"}
    THEN <<"Begin">>
    ELSE <<"Begin", "Commit">>

\* the calls getOrderFromDB makes on its transaction when it returns
\* storeErr: Begin; the Rollback deferred once Begin has succeeded; Commit
\* before it when the four queries have succeeded
getOrderFromDBCalls(storeErr, storeFault) ==
    IF storeFault = "begin" THEN <<"Begin">>
    ELSE IF storeErr = "notfound" \/ storeFault \in {"order", "delivery", "payment", "items"}
    THEN <<"Begin", "Rollback">>
    ELSE <<"Begin", "Commit", "Rollback">>

\* one call on the transaction: Commit and Rollback end an open
\* transaction, on a closed one Rollback returns ErrTxClosed and does nothing
TxCall(t, call, storeFault) ==
    IF call = "Begin"
    THEN [t EXCEPT !.begins = @ + 1,
                   !.state = IF storeFault = "begin" THEN "none" ELSE "open"]
    ELSE IF t.state # "open" THEN t
    ELSE IF call = "Commit"
    THEN [t EXCEPT !.ends = @ + 1,
                   !.state = IF storeFault = "commit" THEN "failed" ELSE "committed"]
    ELSE [t EXCEPT !.ends = @ + 1, !.state = "rolledback"]

RECURSIVE RunTx(_, _, _, _)
RunTx(calls, i, t, storeFault) ==
    IF i > Len(calls) THEN t
    ELSE RunTx(calls, i + 1, TxCall(t, calls[i], storeFault), storeFault)

\* the history of one lookup that returned res
ReadRecord(level, orderUID, fault, res) ==
    [uid |-> orderUID, level |-> level, fault |-> fault,
     entryBefore |-> cache[cacheKey(orderUID)],
     rowBefore |-> \E r \in store.order : r.order_uid = orderUID,
     age |-> sinceWrite[cacheKey(orderUID)],
     err |-> res.err, order |-> res.order, cacheErr |-> res.cacheErr,
     del |-> res.del, storeErr |-> res.storeErr, set |-> res.set,
     entryAfter |-> res.cache[cacheKey(orderUID)],
     othersSame |-> \A k \in CacheKeys \ {cacheKey(orderUID)} : res.cache[k] = cache[k],
     responses |-> res.responses,
     tx |-> IF res.storeErr = "skipped" THEN NoReadTx
            ELSE RunTx(getOrderFromDBCalls(res.storeErr, fault.store), 1,
                       NoReadTx, fault.store)]

\* one lookup, from the call to its return
Lookup(level, orderUID, fault) ==
    /\ \E res \in GetOrderByID(level, orderUID, fault) :
          /\ cache' = res.cache
          /\ lastRead' = ReadRecord(level, orderUID, fault, res)
          /\ sinceWrite' = IF res.set = "ok"
                           THEN [sinceWrite EXCEPT ![cacheKey(orderUID)] = 0]
                           ELSE sinceWrite
    /\ UNCHANGED <<consumerVars, producerVars, applyVars, readerVars>>

\* the payload of a cache entry is damaged: it no longer decodes
Corrupt(key) ==
    /\ cache[key].present
    /\ cache[key].data.wellFormed
    /\ cache' = [cache EXCEPT ![key].data = CorruptData]
    /\ sinceWrite' = [sinceWrite EXCEPT ![key] = -1]
    /\ UNCHANGED <<lastRead, consumerVars, producerVars, applyVars, readerVars>>

\* a day passes: the cache drops the entries whose TTL has run out
Tick ==
    /\ \E k \in CacheKeys : cache[k].present
    /\ cache' = [k \in CacheKeys |->
                   IF ~cache[k].present THEN NoEntry
                   ELSE IF cache[k].ttl <= 1 THEN NoEntry
                   ELSE [cache[k] EXCEPT !.ttl = @ - 1]]
    /\ sinceWrite' = [k \in CacheKeys |->
                        IF sinceWrite[k] < 0 \/ sinceWrite[k] > cacheTTL
                        THEN sinceWrite[k] ELSE sinceWrite[k] + 1]
    /\ UNCHANGED <<lastRead, consumerVars, producerVars, applyVars, readerVars>>

\* what a batch of the given documents leaves in an empty store
StoreAfter(docs) ==
    processMessageBatch(EmptyDB,
                        [i \in 1..Len(docs) |-> [offset |-> i - 1, value |-> Payload(docs[i])]],
                        NoFault).store

\* the store contents the lookups are run on: empty; one order; two orders
\* of which the second has taken over the payment row of the first; an order
\* committed without payment and items; an order whose delivery row is gone
Snapshots ==
    {EmptyDB,
     StoreAfter(<<DocA1>>),
     StoreAfter(<<DocA1, DocB1>>),
     StoreAfter(<<DocB2>>),
     [StoreAfter(<<DocA1>>) EXCEPT !.delivery = {}]}

InitRead ==
    /\ InitLookup
    /\ InitProducer
    /\ InitReader
    /\ InitApply
    /\ topic = <<>>
    /\ enableAutoCommit = FALSE
    /\ stopChan = "open"
    /\ consumerClosed = FALSE
    /\ position = 0
    /\ committed = 0
    /\ batchChan = <<>>
    /\ pollPc = "init"
    /\ pollMsg = NoMsg
    /\ batchPc = "init"
    /\ batch = <<>>
    /\ stopPc = "idle"
    /\ wg = 0
    /\ store \in Snapshots
    /\ lastTx = NoTx
    /\ outcome = [o \in Offsets |-> "none"]
    /\ usedAfterClose = FALSE

NextRead ==
    \/ \E level \in {"repository", "usecase"}, orderUID \in LookupUIDs, fault \in ReadFaults :
          Lookup(level, orderUID, fault)
    \/ \E key \in CacheKeys : Corrupt(key)

\* lookups at both levels on a given store, every cache and store call
\* allowed to fail
SpecRead == InitRead /\ [][NextRead]_vars

NextHTTP ==
    \/ \E orderUID \in LookupUIDs, fault \in ReadFaults :
          Lookup("delivery", orderUID, fault)
    \/ \E key \in CacheKeys : Corrupt(key)

\* requests to the lookup handler on a given store, every cache and store
\* call allowed to fail
SpecHTTP == InitRead /\ [][NextHTTP]_vars

\* the payloads consumed next to the lookups: an order, its update and a
\* second order
CacheValues == {Payload(DocA1), Payload(DocA2), Payload(DocB1)}

\* the consumer's part of Consume: one message read and processed as a
\* batch of its own
ConsumeOne(value) ==
    /\ position < MaxTopic
    /\ position' = position + 1
    /\ topic' = Append(topic, value)
    /\ processBatch(<<[offset |-> position, value |-> value]>>, NoFault)
    /\ UNCHANGED <<enableAutoCommit, stopChan, consumerClosed, batchChan,
                   pollPc, pollMsg, batchPc, stopPc, wg>>

\* Consume with the order also written to the cache
ConsumeWritesThrough(value) ==
    /\ position < MaxTopic
    /\ position' = position + 1
    /\ topic' = Append(topic, value)
    /\ processBatch(<<[offset |-> position, value |-> value]>>, NoFault)
    /\ cache' = [cache EXCEPT ![cacheKey(Unmarshal(value).order.order_uid)] =
                     Entry(CorruptData, cacheTTL)]
    /\ UNCHANGED <<lastRead, sinceWrite, producerVars, applyVars, readerVars>>
    /\ UNCHANGED <<enableAutoCommit, stopChan, consumerClosed, batchChan,
                   pollPc, pollMsg, batchPc, stopPc, wg>>

\* the consumer reads one message and processes it as a batch of its own:
\* nothing in the consumer refers to the cache
Consume(value) ==
    /\ ConsumeOne(value)
    /\ UNCHANGED <<lookupVars, producerVars, applyVars, readerVars>>

\* the lookups run next to the consumer: all cache calls work, or the cache
\* read fails, or the cache write fails
CacheFaults ==
    {NoReadFault, [NoReadFault EXCEPT !.get = TRUE], [NoReadFault EXCEPT !.set = TRUE]}

NextCache ==
    \/ \E value \in CacheValues : Consume(value)
    \/ \E fault \in CacheFaults : Lookup("repository", "a", fault)
    \/ \E key \in CacheKeys : Corrupt(key)
    \/ Tick

\* the consumer filling the store while orders are looked up and time passes
SpecCache == Init /\ [][NextCache]_vars

(* ------------------- validators and responses applied ------------------ *)

\* ResponseErrorAndLog: the response written for err
ResponseErrorAndLog(err) == BadResponse(StatusInternalServerError, "internal error")

\* the errors handed to ResponseErrorAndLog: the sentinels, wrapped
\* sentinels, an error of no category and the errors of ValidateOrderUID
ErrorInputs ==
    {ErrNotFound, ErrValidation, ErrorfText("some random error"),
     ErrorfPrefix("wrapped: ", ErrNotFound), ErrorfPrefix("wrapped: ", ErrValidation)}
    \cup ({OrderUIDError(orderUID) : orderUID \in OrderUIDInputs} \ {NoError})

\* the call fn(arg) made at instant now returned result
Applied(fn, arg, now, result) == [fn |-> fn, arg |-> arg, now |-> now, result |-> result]

\* a call changes nothing of the service
Pure == UNCHANGED <<consumerVars, lookupVars, producerVars, readerVars>>

ApplyValidateOrderRequest ==
    \E now \in Nows : \E order \in OrderInputs(now) :
        /\ applied' = Applied("ValidateOrderRequest", order, now, OrderRequestError(order, now))
        /\ Pure

ApplyValidateMainOrder ==
    \E now \in Nows : \E order \in MainOrderInputs(now) :
        /\ applied' = Applied("ValidateMainOrder", order, now, MainOrderError(order, now))
        /\ Pure

ApplyValidateDelivery ==
    \E delivery \in DeliveryInputs :
        /\ applied' = Applied("ValidateDelivery", delivery, 0, DeliveryError(delivery))
        /\ Pure

ApplyValidatePayment ==
    \E payment \in PaymentInputs :
        /\ applied' = Applied("ValidatePayment", payment, 0, PaymentError(payment))
        /\ Pure

ApplyValidateItems ==
    \E items \in ItemsInputs :
        /\ applied' = Applied("ValidateItems", items, 0, ItemsError(items))
        /\ Pure

ApplyValidateOrderUID ==
    \E orderUID \in OrderUIDInputs :
        /\ applied' = Applied("ValidateOrderUID", orderUID, 0, OrderUIDError(orderUID))
        /\ Pure

ApplyResponseErrorAndLog ==
    \E err \in ErrorInputs :
        /\ applied' = Applied("ResponseErrorAndLog", err, 0, ResponseErrorAndLog(err))
        /\ Pure

NextApply ==
    \/ ApplyValidateOrderRequest
    \/ ApplyValidateMainOrder
    \/ ApplyValidateDelivery
    \/ ApplyValidatePayment
    \/ ApplyValidateItems
    \/ ApplyValidateOrderUID
    \/ ApplyResponseErrorAndLog

\* the validators and ResponseErrorAndLog called on their inputs
SpecApply == Init /\ [][NextApply]_vars

(* ------------------------- producer shutdown --------------------------- *)

\* a panic in a goroutine ends the process
Running == ~panicked

\* WaitGroup.Done: the counter goes down by one, below zero it panics
Done(n) == [counter |-> n - 1, panic |-> n - 1 < 0]

\* the drain task: the range over Events() ends when the client has closed
\* the channel, and the function returns through its deferred p.wg.Done()
DrainReturn ==
    /\ Running
    /\ drainPc = "run"
    /\ eventsClosed
    /\ pwg' = Done(pwg).counter
    /\ panicked' = (panicked \/ Done(pwg).panic)
    /\ drainPc' = "returned"
    /\ UNCHANGED <<eventsClosed, closeOnce, closePc, closeLog>>
    /\ UNCHANGED <<prodPc, prodMsg, attempt, lastErr, ctxDone, prodResult, trail,
                   elapsed, sentAt>>
    /\ UNCHANGED <<consumerVars, lookupVars, readerVars, applyVars>>

\* WaitGroup.Go calls Done itself once the function it started has returned
DrainDone ==
    /\ Running
    /\ drainPc = "returned"
    /\ pwg' = Done(pwg).counter
    /\ panicked' = (panicked \/ Done(pwg).panic)
    /\ drainPc' = "done"
    /\ UNCHANGED <<eventsClosed, closeOnce, closePc, closeLog>>
    /\ UNCHANGED <<prodPc, prodMsg, attempt, lastErr, ctxDone, prodResult, trail,
                   elapsed, sentAt>>
    /\ UNCHANGED <<consumerVars, lookupVars, readerVars, applyVars>>

\* a step of caller c in Close that takes it to pc next
CloseStep(c, next) ==
    /\ closePc' = [closePc EXCEPT ![c] = next]
    /\ UNCHANGED <<prodPc, prodMsg, attempt, lastErr, ctxDone, prodResult, trail,
                   elapsed, sentAt>>
    /\ UNCHANGED <<consumerVars, lookupVars, readerVars, applyVars>>

\* Close is called
CloseCall(c) ==
    /\ Running
    /\ closePc[c] = "idle"
    /\ CloseStep(c, "once")
    /\ UNCHANGED <<pwg, drainPc, eventsClosed, closeOnce, closeLog, panicked>>

\* closeOnce.Do: the first caller runs the function, the others return
\* once it has completed
CloseOnce(c) ==
    /\ Running
    /\ closePc[c] = "once"
    /\ closeOnce # "running"
    /\ IF closeOnce = "new"
       THEN closeOnce' = "running" /\ CloseStep(c, "flush")
       ELSE UNCHANGED closeOnce /\ CloseStep(c, "returned")
    /\ UNCHANGED <<pwg, drainPc, eventsClosed, closeLog, panicked>>

\* p.producer.Flush(defaultFlushTimeout)
CloseFlush(c) ==
    /\ Running
    /\ closePc[c] = "flush"
    /\ closeLog' = Append(closeLog, "Flush")
    /\ CloseStep(c, "close")
    /\ UNCHANGED <<pwg, drainPc, eventsClosed, closeOnce, panicked>>

\* p.producer.Close(): the client closes its Events channel
CloseProducer(c) ==
    /\ Running
    /\ closePc[c] = "close"
    /\ closeLog' = Append(closeLog, "Close")
    /\ eventsClosed' = TRUE
    /\ CloseStep(c, "chan")
    /\ UNCHANGED <<pwg, drainPc, closeOnce, panicked>>

\* close(p.deliveryChan)
CloseChan(c) ==
    /\ Running
    /\ closePc[c] = "chan"
    /\ closeLog' = Append(closeLog, "close(deliveryChan)")
    /\ CloseStep(c, "wait")
    /\ UNCHANGED <<pwg, drainPc, eventsClosed, closeOnce, panicked>>

\* p.wg.Wait() returns when the counter is zero, and Do completes
CloseWait(c) ==
    /\ Running
    /\ closePc[c] = "wait"
    /\ pwg = 0
    /\ closeOnce' = "done"
    /\ CloseStep(c, "returned")
    /\ UNCHANGED <<pwg, drainPc, eventsClosed, closeLog, panicked>>

NextClose ==
    \/ DrainReturn
    \/ DrainDone
    \/ \E c \in Closers :
          \/ CloseCall(c)
          \/ CloseOnce(c)
          \/ CloseFlush(c)
          \/ CloseProducer(c)
          \/ CloseChan(c)
          \/ CloseWait(c)

\* Close called by several goroutines next to the drain task
SpecClose == Init /\ [][NextClose]_vars

(* -------------------------- lookup in steps ---------------------------- *)

\* The read transaction of getOrderFromDB is begun with Begin(ctx), at the
\* default isolation level of the server, READ COMMITTED: each of its four
\* queries sees what is committed when the query starts.

\* order := &models.Order{}
ZeroOrder ==
    [err |-> "none", id |-> 0, order_uid |-> "", track_number |-> "", sm_id |-> 0,
     delivery |-> ZeroDelivery, payment |-> ZeroPayment, items |-> <<>>]

\* SELECT ... FROM "order" WHERE order_uid = $1
orderQuery(db, orderUID) ==
    LET roots == {r \in db.order : r.order_uid = orderUID}
    IN IF roots = {} THEN {[err |-> "notfound"]}
       ELSE {[ZeroOrder EXCEPT !.id = r.id, !.order_uid = r.order_uid,
                               !.track_number = r.track_number,
                               !.sm_id = r.sm_id] : r \in roots}

\* SELECT ... FROM delivery WHERE order_id = $1, no row leaves the zero value
deliveryQuery(db, orderID) ==
    LET dl == {r \in db.delivery : r.order_id = orderID}
    IN IF dl = {} THEN {ZeroDelivery} ELSE {[name |-> r.name] : r \in dl}

\* SELECT ... FROM payment WHERE order_id = $1, no row leaves the zero value
paymentQuery(db, orderID) ==
    LET pm == {r \in db.payment : r.order_id = orderID}
    IN IF pm = {} THEN {ZeroPayment}
       ELSE {[transaction |-> r.transaction, amount |-> r.amount] : r \in pm}

\* SELECT ... FROM item WHERE order_id = $1 ORDER BY id
itemsQuery(db, orderID) ==
    itemsOrderedByID({r \in db.item : r.order_id = orderID})

\* the lookup is inside its read transaction
InReadTx == readPc \in {"order", "delivery", "payment", "items"}

Returned(err, order, from) == [err |-> err, order |-> order, from |-> from]

\* AppRepository.GetOrderByID is called: the cache is asked, and on a miss
\* getOrderFromDB begins its transaction
ReadBegin(orderUID) ==
    /\ readPc \in {"idle", "returned"}
    /\ readUID' = orderUID
    /\ readOrder' = NilOrder
    /\ LET c == getOrderFromCache(cache, orderUID, NoReadFault)
       IN /\ cache' = c.cache
          /\ IF c.err = "none"
             THEN /\ readPc' = "returned"
                  /\ readResult' = Returned("none", c.order, "cache")
                  /\ UNCHANGED versions
             ELSE /\ readPc' = "order"
                  /\ readResult' = NoResult
                  /\ versions' = {store}
    /\ UNCHANGED <<lastRead, sinceWrite, consumerVars, producerVars, applyVars>>

\* the order query: no row is ErrNotFound
ReadOrderRow ==
    /\ readPc = "order"
    /\ \E r \in orderQuery(store, readUID) :
          IF r.err = "notfound"
          THEN /\ readPc' = "returned"
               /\ readResult' = Returned("notfound", NilOrder, "store")
               /\ UNCHANGED readOrder
          ELSE /\ readPc' = "delivery"
               /\ readOrder' = r
               /\ UNCHANGED readResult
    /\ UNCHANGED <<readUID, versions, lookupVars, consumerVars, producerVars, applyVars>>

\* the delivery query
ReadDelivery ==
    /\ readPc = "delivery"
    /\ \E d \in deliveryQuery(store, readOrder.id) :
          readOrder' = [readOrder EXCEPT !.delivery = d]
    /\ readPc' = "payment"
    /\ UNCHANGED <<readUID, readResult, versions, lookupVars, consumerVars,
                   producerVars, applyVars>>

\* the payment query
ReadPayment ==
    /\ readPc = "payment"
    /\ \E pm \in paymentQuery(store, readOrder.id) :
          readOrder' = [readOrder EXCEPT !.payment = pm]
    /\ readPc' = "items"
    /\ UNCHANGED <<readUID, readResult, versions, lookupVars, consumerVars,
                   producerVars, applyVars>>

\* the items query and the commit of the read transaction
ReadItems ==
    /\ readPc = "items"
    /\ readOrder' = [readOrder EXCEPT !.items = itemsQuery(store, readOrder.id)]
    /\ readPc' = "save"
    /\ UNCHANGED <<readUID, readResult, versions, lookupVars, consumerVars,
                   producerVars, applyVars>>

\* saveOrderToCache and the return of the order read
ReadSave ==
    /\ readPc = "save"
    /\ cache' = saveOrderToCache(cache, OrderOf(readOrder), FALSE).cache
    /\ sinceWrite' = [sinceWrite EXCEPT ![cacheKey(readOrder.order_uid)] = 0]
    /\ readResult' = Returned("none", OrderOf(readOrder), "store")
    /\ readPc' = "returned"
    /\ UNCHANGED <<readUID, readOrder, versions, lastRead, consumerVars,
                   producerVars, applyVars>>

\* the consumer commits a batch of one message next to the lookup
Reingest(value) ==
    /\ ConsumeOne(value)
    /\ versions' = IF InReadTx THEN versions \cup {store'} ELSE versions
    /\ UNCHANGED <<readPc, readUID, readOrder, readResult, lookupVars,
                   producerVars, applyVars>>

ReadStep ==
    \/ ReadOrderRow
    \/ ReadDelivery
    \/ ReadPayment
    \/ ReadItems
    \/ ReadSave

NextSnapshot ==
    \/ \E value \in LoopValues : Reingest(value)
    \/ ReadBegin("a")
    \/ ReadStep
    \/ Tick

\* a lookup of order a taken query by query while the consumer ingests
\* order a and its update and the cache entries age
SpecSnapshot == Init /\ [][NextSnapshot]_vars

(* ------------------------------ producer ------------------------------- *)

\* the attempt ceiling Produce hands to produceWithRetry
maxRetries == 3

\* the orders published
ProducedOrders == {DocA1, DocA2, DocB1}

\* what arrives on the delivery channel of an attempt: a *kafka.Message
\* whose TopicPartition.Error is nil ("acked") or set ("failed"), or a
\* kafka.Error ("error")
DeliveryEvents == {"acked", "failed", "error"}

\* history of one attempt: how the submission went and the event received
Attempt(n, submit, event) == [attempt |-> n, submit |-> submit, event |-> event]

\* the loop condition with one attempt too many
CanAttemptOnceMore(n) == n <= maxRetries + 1

\* attempt <= maxRetries
CanAttempt(n) == n <= maxRetries

\* produceWithRetry returns
Return(result) ==
    /\ prodPc' = "done"
    /\ prodResult' = result

\* Produce is called: the order is marshalled, the message built and the
\* context given its deadline; the caller's context may be done already
ProduceCall(order, done) ==
    /\ prodPc \in {"idle", "done"}
    /\ prodPc' = "loop"
    /\ prodMsg' = Payload(order)
    /\ attempt' = 1
    /\ lastErr' = NilErr
    /\ ctxDone' = done
    /\ prodResult' = "none"
    /\ trail' = <<>>
    /\ elapsed' = 0
    /\ sentAt' = 0
    /\ UNCHANGED <<consumerVars, lookupVars, readerVars, closeVars, applyVars>>

\* the loop condition fails: the aggregated error wraps lastErr
LoopExit ==
    /\ prodPc = "loop"
    /\ ~CanAttempt(attempt)
    /\ Return("failed")
    /\ UNCHANGED <<prodMsg, attempt, lastErr, ctxDone, trail, elapsed, sentAt>>
    /\ UNCHANGED <<consumerVars, lookupVars, readerVars, closeVars, applyVars>>

\* the first select finds the context done
LoopCancelled ==
    /\ prodPc = "loop"
    /\ CanAttempt(attempt)
    /\ ctxDone
    /\ Return("timeout")
    /\ UNCHANGED <<prodMsg, attempt, lastErr, ctxDone, trail, elapsed, sentAt>>
    /\ UNCHANGED <<consumerVars, lookupVars, readerVars, closeVars, applyVars>>

\* Submit without the select on the context before it
SubmitUnchecked(fails) ==
    /\ prodPc = "loop"
    /\ CanAttempt(attempt)
    /\ trail' = Append(trail, Attempt(attempt, IF fails THEN "error" ELSE "ok", "none"))
    /\ IF fails
       THEN /\ lastErr' = [kind |-> "produce", attempt |-> attempt]
            /\ prodPc' = "sleep"
       ELSE /\ lastErr' = lastErr
            /\ prodPc' = "select"
    /\ sentAt' = elapsed
    /\ UNCHANGED <<prodMsg, attempt, ctxDone, prodResult, elapsed>>
    /\ UNCHANGED <<consumerVars, lookupVars, readerVars, closeVars, applyVars>>

\* the default case: p.producer.Produce(message, deliveryChan) returns an
\* error or not; after an accepted submission the call is about to enter
\* the second select
Submit(fails) ==
    /\ prodPc = "loop"
    /\ CanAttempt(attempt)
    /\ ~ctxDone
    /\ trail' = Append(trail, Attempt(attempt, IF fails THEN "error" ELSE "ok", "none"))
    /\ IF fails
       THEN /\ lastErr' = [kind |-> "produce", attempt |-> attempt]
            /\ prodPc' = "sleep"
       ELSE /\ lastErr' = lastErr
            /\ prodPc' = "select"
    /\ sentAt' = elapsed
    /\ UNCHANGED <<prodMsg, attempt, ctxDone, prodResult, elapsed>>
    /\ UNCHANGED <<consumerVars, lookupVars, readerVars, closeVars, applyVars>>

\* the second select is entered with the context done and takes its case
SelectCancelled ==
    /\ prodPc = "select"
    /\ ctxDone
    /\ Return("timeout")
    /\ UNCHANGED <<prodMsg, attempt, lastErr, ctxDone, trail, elapsed, sentAt>>
    /\ UNCHANGED <<consumerVars, lookupVars, readerVars, closeVars, applyVars>>

\* the second select is entered with no case ready: the goroutine waits
Park ==
    /\ prodPc = "select"
    /\ ~ctxDone
    /\ prodPc' = "wait"
    /\ UNCHANGED <<prodMsg, attempt, lastErr, ctxDone, prodResult, trail, elapsed, sentAt>>
    /\ UNCHANGED <<consumerVars, lookupVars, readerVars, closeVars, applyVars>>

\* the context becomes done while the goroutine waits in the second
\* select: the case that wakes the goroutine is the one it takes
WaitCancelled ==
    /\ prodPc = "wait"
    /\ ~ctxDone
    /\ ctxDone' = TRUE
    /\ Return("timeout")
    /\ UNCHANGED <<prodMsg, attempt, lastErr, trail, elapsed, sentAt>>
    /\ UNCHANGED <<consumerVars, lookupVars, readerVars, closeVars, applyVars>>

\* the second select receives an event from the delivery channel, one that
\* arrives while the goroutine waits or one that was there when the select
\* was entered (a select with several ready cases takes any of them): any
\* *kafka.Message returns nil, a kafka.Error is kept and the loop goes on
\* after the delay
Deliver(event) ==
    /\ prodPc \in {"select", "wait"}
    /\ trail' = [trail EXCEPT ![Len(trail)].event = event]
    /\ IF event \in {"acked", "failed"}
       THEN /\ Return("ok")
            /\ lastErr' = lastErr
       ELSE /\ lastErr' = [kind |-> "kafka", attempt |-> attempt]
            /\ prodPc' = "sleep"
            /\ prodResult' = prodResult
    /\ UNCHANGED <<prodMsg, attempt, ctxDone, elapsed, sentAt>>
    /\ UNCHANGED <<consumerVars, lookupVars, readerVars, closeVars, applyVars>>

\* time.Sleep(delay) returns and the loop counter is incremented
Sleep ==
    /\ prodPc = "sleep"
    /\ prodPc' = "loop"
    /\ attempt' = attempt + 1
    /\ UNCHANGED <<prodMsg, lastErr, ctxDone, prodResult, trail, elapsed, sentAt>>
    /\ UNCHANGED <<consumerVars, lookupVars, readerVars, closeVars, applyVars>>

\* the deadline of context.WithTimeout passes, or the caller cancels, while
\* the goroutine is not waiting in the second select
Expire ==
    /\ prodPc \in {"loop", "select", "sleep"}
    /\ ~ctxDone
    /\ ctxDone' = TRUE
    /\ UNCHANGED <<prodPc, prodMsg, attempt, lastErr, prodResult, trail, elapsed, sentAt>>
    /\ UNCHANGED <<consumerVars, lookupVars, readerVars, closeVars, applyVars>>

\* the steps produceWithRetry takes on its own
ProducerStep ==
    \/ LoopExit
    \/ LoopCancelled
    \/ \E fails \in BOOLEAN : Submit(fails)
    \/ SelectCancelled
    \/ Park
    \/ Sleep

\* the context of the call becomes done
ContextDone ==
    \/ Expire
    \/ WaitCancelled

NextProduce ==
    \/ \E order \in ProducedOrders, done \in BOOLEAN : ProduceCall(order, done)
    \/ ProducerStep
    \/ \E event \in DeliveryEvents : Deliver(event)
    \/ ContextDone

\* calls of Produce: the goroutine of the call keeps running and the
\* deadline of its context passes, while the broker need not answer
SpecProduce ==
    /\ Init
    /\ [][NextProduce]_vars
    /\ WF_vars(ProducerStep)
    /\ WF_vars(ContextDone)

\* the deadline Produce gives its context and, as message.timeout.ms, the
\* time after which the client reports an undelivered message, in seconds
defaultDeliveryTimeout == 10

\* a second passes during the call
Elapse ==
    /\ prodPc \in {"loop", "select", "wait", "sleep"}
    /\ elapsed < defaultDeliveryTimeout
    /\ elapsed' = elapsed + 1
    /\ UNCHANGED <<prodPc, prodMsg, attempt, lastErr, ctxDone, prodResult, trail, sentAt>>
    /\ UNCHANGED <<consumerVars, lookupVars, readerVars, closeVars, applyVars>>

\* the timer of context.WithTimeout fires
Deadline ==
    /\ elapsed >= defaultDeliveryTimeout
    /\ ContextDone

\* what the delivery channel can carry when the message timed out
TimeoutEvents == {"failed", "error"}

\* the client gives up on the message of the current attempt:
\* message.timeout.ms have passed since its submission
Report(event) ==
    /\ elapsed - sentAt >= defaultDeliveryTimeout
    /\ Deliver(event)

NextDeadline ==
    \/ \E order \in ProducedOrders : ProduceCall(order, FALSE)
    \/ ProducerStep
    \/ Elapse
    \/ Deadline
    \/ \E event \in TimeoutEvents : Report(event)

\* calls of Produce while the broker cannot be reached: the client accepts
\* or refuses a submission and reports the message undelivered when its
\* timeout has passed; the caller does not cancel
SpecDeadline == Init /\ [][NextDeadline]_vars

TypeOK ==
    /\ pollPc \in {"init", "select", "read", "push", "done"}
    /\ batchPc \in {"init", "loop", "done"}
    /\ stopPc \in {"idle", "close", "wait", "returned"}
    /\ wg \in 0..2
    /\ position \in 0..MaxTopic
    /\ committed \in 0..MaxTopic

(* ----------------------------- vocabulary ------------------------------ *)

\* the message deserializes and passes the validator
IsValid(value) ==
    LET u == Unmarshal(value)
    IN ~u.err /\ ValidateOrderRequest(u.order)

MaxOf(S) == CHOOSE x \in S : \A y \in S : y <= x

RootRows(uid) == {r \in store.order : r.order_uid = uid}

\* the step processed a non-empty batch
BatchProcessed == outcome' # outcome

\* message i of the last batch processed
LastBatch(i) == Message(lastTx.offsets[i])

(* ------------------------------- claims -------------------------------- *)

\* C1: with auto-commit off, an offset is committed only for a message
\* whose batch transaction committed; after a failed Begin or Commit no
\* offset of the batch is advanced.
C1_OffsetsOnlyAfterStoreCommit ==
    \A o \in Offsets : o < committed => outcome[o] \notin {"none", "txfailed"}

\* C2: no valid message is lost: a valid message whose offset is committed
\* has its order in the store.
C2_NoValidMessageLost ==
    \A o \in Offsets :
        (o < committed /\ IsValid(topic[o + 1]))
            => RootRows(topic[o + 1].doc.order_uid) # {}

\* C3: when the store write of some message of a batch fails, nothing of
\* that batch becomes visible in the store.
C3_NoPartialCommit ==
    [][(BatchProcessed /\ lastTx'.writeFailed) => store' = store]_vars

\* the items the lookup reads for an order row
StoredItems(orderID) == itemsOrderedByID({r \in store.item : r.order_id = orderID})

\* the document is in the store: its order row with item rows (a valid
\* document has at least one item)
Persisted(order) ==
    /\ RootRows(order.order_uid) # {}
    /\ \A r \in RootRows(order.order_uid) : StoredItems(r.id) # <<>>

\* C4: in a batch that holds a message failing to deserialize or to
\* validate, and whose transaction meets no infrastructure failure, the bad
\* messages are skipped, the transaction commits, and every valid message
\* of the batch is persisted.
C4_BadMessagesIsolated ==
    (/\ lastTx.fault = "none"
     /\ \E k \in 1..Len(lastTx.offsets) : ~IsValid(LastBatch(k).value)) =>
        /\ lastTx.err = "none"
        /\ \A i \in 1..Len(lastTx.offsets) :
              IF IsValid(LastBatch(i).value)
              THEN Persisted(LastBatch(i).value.doc)
              ELSE outcome[LastBatch(i).offset] = "skipped"

\* the offsets of the valid messages for uid read so far
ValidFor(uid) ==
    {o \in 0..(Len(topic) - 1) :
        IsValid(topic[o + 1]) /\ topic[o + 1].doc.order_uid = uid}

\* C5: re-ingesting an order_uid is an upsert with full item replacement:
\* once a batch has committed whose last valid document for an order_uid
\* follows an earlier valid document of that order_uid, the store holds
\* exactly one order row for it, with the fields of the later document, and
\* its item rows are exactly the later document's items.
C5_IdempotentUpsert ==
    \A uid \in OrderUIDs :
        (/\ lastTx.err = "none"
         /\ Cardinality(ValidFor(uid)) >= 2
         /\ \E i \in 1..Len(lastTx.offsets) :
               lastTx.offsets[i] = MaxOf(ValidFor(uid))) =>
            LET d == topic[MaxOf(ValidFor(uid)) + 1].doc
            IN /\ Cardinality(RootRows(uid)) = 1
               /\ \A r \in RootRows(uid) :
                     /\ r.track_number = d.track_number
                     /\ r.sm_id = d.sm_id
                     /\ StoredItems(r.id) = d.items

\* C6: after a batch committed, a store lookup of a valid document's
\* order_uid (the last one of that order_uid in the batch) returns the
\* document's root fields, delivery, payment and items.
C6_RoundTrip ==
    lastTx.err = "none" =>
        \A i \in 1..Len(lastTx.offsets) :
            LET m == LastBatch(i)
                d == m.value.doc
            IN (/\ IsValid(m.value)
                /\ \A j \in (i + 1)..Len(lastTx.offsets) :
                      ~(IsValid(LastBatch(j).value)
                        /\ LastBatch(j).value.doc.order_uid = d.order_uid))
               => \A res \in getOrderFromDB(store, d.order_uid) :
                     /\ res.err = "none"
                     /\ res.order_uid = d.order_uid
                     /\ res.track_number = d.track_number
                     /\ res.sm_id = d.sm_id
                     /\ res.delivery = d.delivery
                     /\ res.payment = d.payment
                     /\ res.items = d.items

Processed == {o \in Offsets : outcome[o] # "none"}

\* the messages read and not yet processed, oldest first
InFlight ==
    batch \o batchChan \o (IF pollMsg = NoMsg THEN <<>> ELSE <<pollMsg>>)

\* the offsets of the valid messages for uid that the consumer group has
\* committed: the broker will not deliver them again
Acknowledged(uid) == {o \in ValidFor(uid) : o < committed}

\* C7: arrival order is preserved: the messages are processed in offset
\* order, the messages in flight are the next ones in offset order, a batch
\* holds consecutive offsets, and of two valid messages of one order_uid
\* that the consumer is done with, the store reflects the later one.
C7_ArrivalOrderPreserved ==
    /\ Processed = 0..(Cardinality(Processed) - 1)
    /\ \A i \in 1..Len(InFlight) :
          InFlight[i] = Message(Cardinality(Processed) + i - 1)
    /\ \A i \in 1..Len(lastTx.offsets) :
          lastTx.offsets[i] = lastTx.offsets[1] + i - 1
    /\ \A uid \in OrderUIDs :
          Cardinality(Acknowledged(uid)) >= 2 =>
             /\ RootRows(uid) # {}
             /\ \A r \in RootRows(uid) :
                   r.track_number = topic[MaxOf(Acknowledged(uid)) + 1].doc.track_number

\* every message read is in exactly one place
ReadOnce ==
    /\ Len(InFlight) + Cardinality(Processed) = position
    /\ \A i, j \in 1..Len(InFlight) : i # j => InFlight[i].offset # InFlight[j].offset
    /\ \A i \in 1..Len(InFlight) :
          /\ InFlight[i].offset \in 0..(position - 1)
          /\ InFlight[i].offset \notin Processed
          /\ InFlight[i].value = topic[InFlight[i].offset + 1]

\* C8: backpressure without loss: the queue never exceeds its capacity,
\* every message read is held exactly once (in the loop's hand, the queue,
\* the batch or among the processed ones), and while the queue is full the
\* poll loop stays on its push, keeps its message and reads nothing.
C8_BackpressureWithoutLoss ==
    [][/\ Len(batchChan') <= batchSize
       /\ ReadOnce'
       /\ (pollPc = "push" /\ Len(batchChan) = batchSize) =>
             /\ pollPc' = "push"
             /\ pollMsg' = pollMsg
             /\ position' = position
             /\ batchChan' \in {batchChan, Tail(batchChan)}]_vars

\* the poll loop blocked on its push with the queue full
C8_Witness ==
    /\ pollPc = "push"
    /\ pollMsg # NoMsg
    /\ Len(batchChan) = batchSize

\* C9: when the batch loop exits on the stop signal, no message is left in
\* the bounded queue or in the in-memory batch.
C9_FinalBatchDrainsQueue ==
    [][(batchPc = "loop" /\ batchPc' = "done")
          => (batchChan' = <<>> /\ batch' = <<>>)]_vars

\* C10: the broker client is closed only after both loops have finished,
\* and no read or offset commit is issued on the closed client.
C10_CloseAfterLoops ==
    /\ consumerClosed => (pollPc = "done" /\ batchPc = "done")
    /\ ~usedAfterClose


(* --------------------------- claims: lookups --------------------------- *)

\* a lookup has returned
Read == lastRead.level # "none"

\* the last lookup was for an identifier with no root row and no cache entry
NeverIngested == Read /\ ~lastRead.rowBefore /\ ~lastRead.entryBefore.present

\* C11 as stated: GetOrderByID for an order_uid that was never ingested (no
\* root row, no cache entry) returns NotFound with a nil order, at the
\* repository and at the usecase level.
C11_NeverIngestedIsNotFound ==
    NeverIngested => lastRead.err = "notfound" /\ lastRead.order = NilOrder

\* C11 amended: for a never-ingested order_uid the repository returns
\* NotFound with a nil order, and so does the usecase when the identifier
\* passes ValidateOrderUID, as long as Begin and the order query do not
\* fail; the usecase answers an identifier that fails validation with a
\* validation error, and a failed Begin or order query gives an internal
\* error. The order is nil in every case.
C11_NeverIngestedWellFormedIsNotFound ==
    NeverIngested =>
        /\ lastRead.order = NilOrder
        /\ lastRead.err =
              IF lastRead.level = "usecase" /\ ValidateOrderUID(lastRead.uid) # "nil"
              THEN "validation"
              ELSE IF lastRead.fault.store \in {"begin", "order"} THEN "internal"
              ELSE "notfound"

C11_Witness ==
    /\ NeverIngested
    /\ lastRead.level = "usecase"
    /\ lastRead.uid = "b"
    /\ lastRead.storeErr = "notfound"
    /\ lastRead.err = "notfound"


\* the orders a store read of uid can return on the current store
StoreOrders(uid) ==
    IF RootRows(uid) = {} THEN {}
    ELSE {OrderOf(r) : r \in getOrderFromDB(store, uid)}

\* the last lookup got what its store read yields: the order read, NotFound
\* or the internal error, the order being nil with an error
ReturnsStoreResult ==
    /\ lastRead.storeErr \in {"none", "notfound", "internal"}
    /\ lastRead.err = lastRead.storeErr
    /\ lastRead.err = "none" => lastRead.order \in StoreOrders(lastRead.uid)
    /\ lastRead.err # "none" => lastRead.order = NilOrder
    /\ lastRead.fault.store = "none" =>
          lastRead.err = IF lastRead.rowBefore THEN "none" ELSE "notfound"

\* C12: on a cache hit (a decodable entry under order:<id>, read without a
\* cache failure) GetOrderByID returns the decoded order with no error,
\* performs no store access and writes nothing to the cache.
C12_HitServedFromCache ==
    (/\ Read
     /\ lastRead.cacheErr # "skipped"
     /\ lastRead.entryBefore.present
     /\ lastRead.entryBefore.data.wellFormed
     /\ ~lastRead.fault.get) =>
        /\ lastRead.err = "none"
        /\ lastRead.order = lastRead.entryBefore.data.doc
        /\ lastRead.order # NilOrder
        /\ lastRead.storeErr = "skipped"
        /\ lastRead.set = "none"
        /\ ~lastRead.del
        /\ lastRead.entryAfter = lastRead.entryBefore
        /\ lastRead.othersSame

C12_Witness ==
    /\ Read
    /\ lastRead.entryBefore.present
    /\ lastRead.entryBefore.data.wellFormed
    /\ lastRead.cacheErr = "none"
    /\ lastRead.fault.store = "begin"
    /\ lastRead.order.order_uid = "a"

\* C14: an entry that cannot be decoded is evicted and the lookup falls
\* through to the store and returns the store's result; a successful store
\* read rewrites a valid entry, so that the next lookup is a clean hit
\* (cache calls not failing).
C14_CorruptEntryEvictedAndRewritten ==
    (/\ Read
     /\ lastRead.cacheErr # "skipped"
     /\ lastRead.entryBefore.present
     /\ ~lastRead.entryBefore.data.wellFormed
     /\ ~lastRead.fault.get /\ ~lastRead.fault.del /\ ~lastRead.fault.set) =>
        /\ lastRead.cacheErr = "unmarshal"
        /\ lastRead.del
        /\ ReturnsStoreResult
        /\ lastRead.othersSame
        /\ lastRead.entryAfter =
              IF lastRead.err = "none"
              THEN Entry(MarshalOrder(lastRead.order), cacheTTL)
              ELSE NoEntry
        /\ lastRead.err = "none" =>
              UnmarshalOrder(lastRead.entryAfter.data) = [err |-> FALSE, order |-> lastRead.order]

C14_Witness ==
    /\ Read
    /\ lastRead.entryBefore.present
    /\ ~lastRead.entryBefore.data.wellFormed
    /\ lastRead.del
    /\ lastRead.set = "ok"
    /\ lastRead.entryAfter.present
    /\ lastRead.entryAfter.data.wellFormed

\* C15: when the cache read fails with an error other than a miss, the
\* lookup still consults the store and returns exactly what the store
\* fallback yields (the order, NotFound or the store error): the cache read
\* error alone never makes the lookup fail.
C15_CacheReadErrorFallsBack ==
    (Read /\ lastRead.cacheErr = "redis") => ReturnsStoreResult /\ ~lastRead.del

C15_Witness ==
    /\ Read
    /\ lastRead.cacheErr = "redis"
    /\ lastRead.entryBefore.present
    /\ lastRead.err = "none"
    /\ lastRead.order.order_uid = "a"

\* C16: the cache write is best effort: when the store read succeeds and
\* the cache write fails, the lookup returns the order with no error and
\* the cache is left without a new entry.
C16_CacheWriteBestEffort ==
    (Read /\ lastRead.set = "failed") =>
        /\ lastRead.storeErr = "none"
        /\ lastRead.err = "none"
        /\ lastRead.order \in StoreOrders(lastRead.uid)
        /\ lastRead.entryAfter \in {NoEntry, lastRead.entryBefore}
        /\ lastRead.entryAfter # Entry(MarshalOrder(lastRead.order), cacheTTL)
        /\ lastRead.othersSame

C16_Witness ==
    /\ Read
    /\ lastRead.set = "failed"
    /\ lastRead.err = "none"
    /\ lastRead.order.order_uid = "a"
    /\ ~lastRead.entryAfter.present

\* the rows of the order the last lookup asked for
DeliveryRows == {r \in store.delivery : \E o \in RootRows(lastRead.uid) : r.order_id = o.id}

PaymentRows == {r \in store.payment : \E o \in RootRows(lastRead.uid) : r.order_id = o.id}

ItemRows == {r \in store.item : \E o \in RootRows(lastRead.uid) : r.order_id = o.id}

\* C18: in a store read that found the root row, a missing delivery or
\* payment row is not an error: the read succeeds with a zero-value
\* delivery or payment object, and with an empty item list if there are no
\* items; any failure of the delivery, payment or items query makes the
\* whole read fail with a nil order.
C18_MissingRowsAreNotErrors ==
    (/\ Read
     /\ lastRead.storeErr # "skipped"
     /\ lastRead.rowBefore
     /\ lastRead.fault.store \notin {"begin", "order", "commit"}) =>
        IF lastRead.fault.store \in {"delivery", "payment", "items"}
        THEN lastRead.err = "internal" /\ lastRead.order = NilOrder
        ELSE /\ lastRead.err = "none"
             /\ lastRead.order.delivery \in
                   IF DeliveryRows = {} THEN {ZeroDelivery}
                   ELSE {[name |-> r.name] : r \in DeliveryRows}
             /\ lastRead.order.payment \in
                   IF PaymentRows = {} THEN {ZeroPayment}
                   ELSE {[transaction |-> r.transaction, amount |-> r.amount] : r \in PaymentRows}
             /\ Len(lastRead.order.items) = Cardinality(ItemRows)

C18_Witness ==
    /\ Read
    /\ lastRead.storeErr = "none"
    /\ DeliveryRows = {}
    /\ PaymentRows # {}
    /\ lastRead.order.delivery = ZeroDelivery
    /\ lastRead.order.payment # ZeroPayment


(* ---------------------- claims: cache and consumer --------------------- *)

\* C13: after a lookup served by the store fallback has written the entry,
\* every later lookup of the id within the 7-day TTL whose cache read works
\* is served from the cache with no store round trip; the entry is written
\* under order:<id> with a TTL of exactly 7 days, after which the lookup
\* goes to the store again.
C13_ServedFromCacheWithinTTL ==
    /\ (Read /\ lastRead.age >= 0 /\ lastRead.age < cacheTTL /\ ~lastRead.fault.get) =>
          /\ lastRead.cacheErr = "none"
          /\ lastRead.err = "none"
          /\ lastRead.storeErr = "skipped"
          /\ lastRead.entryBefore.ttl = cacheTTL - lastRead.age
    /\ (Read /\ lastRead.set = "ok") =>
          /\ lastRead.entryAfter = Entry(MarshalOrder(lastRead.order), cacheTTL)
          /\ lastRead.order.order_uid = lastRead.uid
    /\ (Read /\ lastRead.age >= cacheTTL) =>
          /\ ~lastRead.entryBefore.present
          /\ lastRead.storeErr # "skipped"
    /\ \A u \in LookupUIDs :
          (sinceWrite[cacheKey(u)] >= 0 /\ sinceWrite[cacheKey(u)] < cacheTTL) =>
              /\ cache[cacheKey(u)].present
              /\ cache[cacheKey(u)].data.wellFormed
              /\ cache[cacheKey(u)].data.doc.order_uid = u

\* a lookup on the last day of the TTL is still served from the cache
C13_Witness ==
    /\ Read
    /\ lastRead.age = cacheTTL - 1
    /\ lastRead.cacheErr = "none"
    /\ lastRead.storeErr = "skipped"
    /\ lastRead.order.order_uid = "a"

\* the step is one of the consumer
Consumed == position' # position

\* the step changes the entry under key k as a lookup does after its store
\* read succeeded
WrittenByLookup(k) ==
    /\ ~Consumed
    /\ k = cacheKey(lastRead'.uid)
    /\ lastRead'.storeErr = "none"
    /\ lastRead'.set = "ok"
    /\ cache'[k] = Entry(MarshalOrder(lastRead'.order), cacheTTL)

\* the step removes an undecodable entry under key k during a lookup
Evicted(k) ==
    /\ ~Consumed
    /\ k = cacheKey(lastRead'.uid)
    /\ lastRead'.del
    /\ cache[k].present /\ ~cache[k].data.wellFormed
    /\ cache'[k] = NoEntry

\* the step is none of the program: the entry under k ages, expires or
\* is damaged
AgedOrDamaged(k) ==
    /\ ~Consumed
    /\ lastRead' = lastRead
    /\ cache[k].present
    /\ \/ cache[k].ttl <= 1 /\ cache'[k] = NoEntry
       \/ cache[k].ttl > 1 /\ cache'[k] = [cache[k] EXCEPT !.ttl = @ - 1]
       \/ cache'[k] = [cache[k] EXCEPT !.data = CorruptData]

\* C17: there is no write-through and no cache warming: a step of the
\* consumer leaves the cache as it is; an entry is written only by a lookup
\* after a successful store-fallback read and deleted only as the eviction
\* of an undecodable entry; before the first lookup the cache holds nothing.
C17_NoWriteThrough ==
    /\ [](~Read => cache = EmptyCache)
    /\ [][/\ Consumed => cache' = cache /\ lastRead' = lastRead
          /\ \A k \in CacheKeys :
                cache'[k] # cache[k] =>
                    WrittenByLookup(k) \/ Evicted(k) \/ AgedOrDamaged(k)]_vars

\* both orders are in the store, order a was updated after its entry was
\* written and the entry still holds the old version, order b has no entry
C17_Witness ==
    /\ RootRows("b") # {}
    /\ ~cache[cacheKey("b")].present
    /\ cache[cacheKey("a")].present
    /\ cache[cacheKey("a")].data.wellFormed
    /\ cache[cacheKey("a")].data.doc.track_number = "T1"
    /\ \E r \in RootRows("a") : r.track_number = "T2"


(* --------------------------- claims: producer -------------------------- *)

\* the call of Produce is running
Producing == prodPc \in {"loop", "select", "wait", "sleep"}

C20_OkIffPositiveAck ==
    /\ prodPc = "done" =>
          (prodResult = "ok" <=> \E i \in 1..Len(trail) : trail[i].event = "acked")
    /\ \A i \in 1..Len(trail) : trail[i].event = "acked" => i = Len(trail)
    /\ (prodPc = "done" /\ \E i \in 1..Len(trail) : trail[i].event = "failed") =>
          prodResult # "ok"


\* attempt i of the call failed: its submission was refused or its
\* delivery event carries an error
AttemptFailed(i) ==
    \/ trail[i].submit = "error"
    \/ trail[i].event \in {"failed", "error"}

\* C21: when all maxRetries attempts of a call fail and the context is not
\* cancelled, Produce returns the aggregated error, which wraps the failure
\* of the last attempt and never nil.
C21_AggregatedWrapsLastFailure ==
    (/\ prodPc = "done"
     /\ ~ctxDone
     /\ Len(trail) = maxRetries
     /\ \A i \in 1..maxRetries : AttemptFailed(i)) =>
        /\ prodResult = "failed"
        /\ lastErr.kind # "nil"
        /\ lastErr.attempt = maxRetries

\* C22: while the broker stays unreachable, a call of Produce ends with the
\* aggregated failure that names the last delivery error, and not with the
\* timed-out error.
C22_UnreachableGivesAggregatedFailure ==
    (/\ prodPc = "done"
     /\ Len(trail) >= 1
     /\ \A i \in 1..Len(trail) : trail[i].submit = "ok") =>
        /\ prodResult = "failed"
        /\ lastErr.kind = "kafka"
        /\ lastErr.attempt = Len(trail)

MalformedUIDs == {"", LongUID, "!"}

\* the last lookup left the cache as it was
CacheUntouched ==
    /\ lastRead.set = "none"
    /\ ~lastRead.del
    /\ lastRead.entryAfter = lastRead.entryBefore
    /\ lastRead.othersSame

\* C24: the usecase validates the identifier first: for an id that is
\* empty, longer than 50 or holds a character outside [a-zA-Z0-9_-] it
\* returns a nil order with an error that wraps ErrValidation and the
\* repository, hence cache and store, is not invoked; no other id is
\* rejected.
C24_ValidationBeforeRepository ==
    (Read /\ lastRead.level = "usecase") =>
        IF lastRead.uid \in MalformedUIDs
        THEN /\ lastRead.err = "validation"
             /\ lastRead.order = NilOrder
             /\ lastRead.cacheErr = "skipped"
             /\ lastRead.storeErr = "skipped"
             /\ CacheUntouched
        ELSE /\ lastRead.err # "validation"
             /\ lastRead.cacheErr # "skipped"

C24_Witness ==
    /\ Read
    /\ lastRead.level = "usecase"
    /\ lastRead.uid = LongUID
    /\ lastRead.err = "validation"
    /\ lastRead.fault.get

\* the error the repository returned to the usecase in the last lookup
RepositoryErr ==
    IF lastRead.storeErr = "skipped" THEN "none" ELSE lastRead.storeErr

\* C25: for a well-formed id the usecase returns ErrNotFound exactly when
\* the repository's error is NotFound, a wrapped internal error for every
\* other repository error and the repository's order on success; it never
\* returns both an order and an error.
C25_UsecaseErrorMapping ==
    (Read /\ lastRead.level = "usecase" /\ lastRead.uid \notin MalformedUIDs) =>
        /\ lastRead.err = "notfound" <=> RepositoryErr = "notfound"
        /\ RepositoryErr = "internal" => lastRead.err = "internal"
        /\ lastRead.err = "none" <=> RepositoryErr = "none"
        /\ lastRead.err = "none" =>
              /\ lastRead.order # NilOrder
              /\ lastRead.order \in StoreOrders(lastRead.uid)
                                    \cup {lastRead.entryBefore.data.doc}
        /\ lastRead.err # "none" => lastRead.order = NilOrder

C25_Witness ==
    /\ Read
    /\ lastRead.level = "usecase"
    /\ lastRead.uid = "a"
    /\ RepositoryErr = "internal"
    /\ lastRead.err = "internal"
    /\ lastRead.order = NilOrder


(* ------------------------- claims: HTTP lookup ------------------------- *)

\* C26: the lookup handler answers 200 with the order exactly when the
\* usecase returns an order, 404 with {"status":404,"text":"order not
\* found"} exactly when the usecase error is NotFound, 500 with
\* {"status":500,"text":"internal server error"} for every other usecase
\* error, and 400 without calling the usecase when order_uid is empty;
\* exactly one response is written per request.
C26_StatusMapping ==
    (Read /\ lastRead.level = "delivery") =>
        /\ Len(lastRead.responses) = 1
        /\ IF lastRead.uid = ""
           THEN /\ lastRead.responses[1].status = StatusBadRequest
                /\ lastRead.err = "skipped"
                /\ lastRead.cacheErr = "skipped"
                /\ lastRead.storeErr = "skipped"
           ELSE /\ lastRead.err # "skipped"
                /\ lastRead.err = "none" <=> lastRead.responses[1].status = StatusOK
                /\ lastRead.err = "none" =>
                      /\ lastRead.order # NilOrder
                      /\ lastRead.responses[1].body = convertToResponse(lastRead.order)
                /\ lastRead.err = "notfound" <=>
                      lastRead.responses[1] =
                          [status |-> StatusNotFound,
                           body |-> [status |-> StatusNotFound, text |-> "order not found"]]
                /\ lastRead.err \notin {"none", "notfound"} <=>
                      lastRead.responses[1] =
                          [status |-> StatusInternalServerError,
                           body |-> [status |-> StatusInternalServerError,
                                     text |-> "internal server error"]]

\* an identifier the usecase rejects is answered with 500
C26_Witness ==
    /\ Read
    /\ lastRead.level = "delivery"
    /\ lastRead.uid = "!"
    /\ lastRead.err = "validation"
    /\ lastRead.responses[1].status = StatusInternalServerError


(* -------------------------- claims: shutdown --------------------------- *)

\* C27: after Stop() is invoked both loops terminate and Stop() returns in
\* every interleaving: as long as Stop has not returned, Stop or one of the
\* loops can take a step (no deadlock on the WaitGroup), also when the poll
\* loop is inside its blocking push on a full queue as the batch loop exits.
C27_ShutdownTerminates ==
    (stopChan = "closed" /\ stopPc # "returned") =>
        \/ stopPc = "close"
        \/ stopPc = "wait" /\ wg = 0
        \/ batchPc = "loop"
        \/ pollPc \in {"select", "read"}
        \/ pollPc = "push" /\ CanPush(batchChan)


(* ----------------------- claims: payment rows -------------------------- *)

\* the offsets of the documents of uid ingested so far: valid documents
\* whose writes all succeeded in a batch that committed
Ingested(uid) ==
    {o \in Processed : outcome[o] = "ok" /\ topic[o + 1].doc.order_uid = uid}

\* the payment rows that point to the order row
PaymentsOf(row) == {p \in store.payment : p.order_id = row.id}

\* C28: under any sequence of valid ingestions (every message processed so
\* far was valid and stored in a batch that committed), each order row has
\* exactly one payment row pointing to it, holding the payment of the most
\* recent document ingested for that order_uid, also when two orders share
\* a payment.transaction.
C28_PaymentOneToOne ==
    (\A o \in Processed : outcome[o] = "ok") =>
        \A uid \in OrderUIDs :
            \A row \in RootRows(uid) :
                LET d == topic[MaxOf(Ingested(uid)) + 1].doc
                IN /\ Cardinality(PaymentsOf(row)) = 1
                   /\ \A p \in PaymentsOf(row) :
                         /\ p.transaction = d.payment.transaction
                         /\ p.amount = d.payment.amount


(* ----------------------- claims: read snapshot ------------------------- *)

\* the lookup in steps has returned an order it read from the store
ReturnedFromStore ==
    readPc = "returned" /\ readResult.from = "store" /\ readResult.err = "none"

\* the order is what the four queries yield on the store content db
VersionOf(order, db) ==
    \E res \in getOrderFromDB(db, order.order_uid) :
        res.err = "none" /\ OrderOf(res) = order

\* C29: the aggregate a store-fallback lookup returns is one committed
\* version of the order: root row, delivery, payment and items all stem
\* from one content the store had during the read transaction, also when
\* the consumer commits a re-ingestion of the order between the reads.
C29_SnapshotConsistency ==
    ReturnedFromStore => \E db \in versions : VersionOf(readResult.order, db)

(* ---------------------- claims: cache staleness ------------------------ *)

\* the lookup in steps is called and finds a decodable entry for its order
CacheHit(orderUID) ==
    /\ ReadBegin(orderUID)
    /\ cache[cacheKey(orderUID)].present
    /\ cache[cacheKey(orderUID)].data.wellFormed

\* the lookup in steps writes the order it read to the cache and returns
CacheFill == ReadSave

\* C30: the entry a lookup stores under order:<id> equals a version of the
\* order that was committed in the store when it was read, and is the order
\* the lookup returns (a miss returns and re-caches the store version);
\* while an entry is in the cache, lookups return it whatever has been
\* re-ingested since, until it expires or is evicted.
C30_BoundedStaleness ==
    [][/\ CacheFill =>
            /\ cache'[cacheKey(readUID)] =
                   Entry(MarshalOrder(readResult'.order), cacheTTL)
            /\ \E db \in versions : VersionOf(readResult'.order, db)
       /\ CacheHit("a") =>
            /\ readResult' = Returned("none", cache[cacheKey("a")].data.doc, "cache")
            /\ cache' = cache]_vars

(* ------------------------- claims: the batch --------------------------- *)

\* C31: the in-memory batch never holds more than batchSize messages; it is
\* processed exactly when it reaches batchSize, when the ticker fires while
\* it is non-empty, or on the stop signal while it is non-empty; an empty
\* batch is never processed (no transaction, no offset commit); and after
\* processing the batch is empty whether processing succeeded or failed.
C31_BatchInvariant ==
    [][/\ Len(batch') <= batchSize
       /\ BatchProcessed <=> \/ BatchRecv /\ Len(batch) + 1 >= batchSize
                             \/ BatchTick /\ batch # <<>>
                             \/ BatchStop /\ batch # <<>>
       /\ BatchProcessed => batch' = <<>>
       /\ ~BatchProcessed => UNCHANGED <<store, committed, lastTx>>]_vars

\* a full batch whose transaction failed has been processed and cleared
C31_Witness ==
    /\ Len(lastTx.offsets) = batchSize
    /\ lastTx.err # "none"
    /\ batch = <<>>

(* ------------------------ claims: bad messages ------------------------- *)

\* the offsets of the messages the loops hold: read and not yet processed
InFlightOffsets == {InFlight[i].offset : i \in 1..Len(InFlight)}

\* the message at the offset failed to deserialize or to validate
Bad(o) == o < Len(topic) /\ ~IsValid(topic[o + 1])

\* a bad message of the batch just processed
BadInLastBatch(o) ==
    Bad(o) /\ \E i \in 1..Len(lastTx.offsets) : lastTx.offsets[i] = o

\* no statement of the last transaction was issued for a bad message
NoStatementForBad ==
    \A i \in 1..Len(lastTx.log) : ~Bad(lastTx.log[i].msg)

\* a processed bad message is not in the queue, the batch or the poll loop
\* again, and no later batch holds it
NeverRequeued ==
    \A o \in Offsets :
        (Bad(o) /\ outcome[o] # "none") =>
            /\ outcome[o] \in {"skipped", "txfailed"}
            /\ o \notin InFlightOffsets
            /\ o <= lastTx.offsets[Len(lastTx.offsets)]

\* the offset of a bad message is committed with its batch
CommittedWithBatch ==
    \A o \in Offsets : BadInLastBatch(o) => committed > o

\* C32: a message that fails to deserialize or to validate causes no store
\* statement on its behalf, is never pushed back onto the queue or retried,
\* and has its offset committed together with the rest of its batch.
C32_BadMessageSkipped ==
    /\ NoStatementForBad
    /\ NeverRequeued
    /\ CommittedWithBatch

(* ----------------------- claims: offset positions ---------------------- *)

\* the highest offset of the batch just processed
HighestOffset == MaxOf({lastTx.offsets[i] : i \in 1..Len(lastTx.offsets)})

\* C33: with auto-commit disabled, the offsets committed for a batch are
\* message offset + 1 for every message of the batch, so the committed
\* position after a commit the client took is exactly one past the highest
\* offset of the batch, and it never moves backwards across batches; with
\* auto-commit enabled the consumer issues no explicit offset commit.
C33_OffsetPositions ==
    [][/\ (BatchProcessed /\ ~enableAutoCommit) =>
            /\ lastTx'.commit = [i \in 1..Len(lastTx'.offsets) |->
                                    lastTx'.offsets[i] + 1]
            /\ ~consumerClosed => committed' = HighestOffset' + 1
       /\ (committed' # committed /\ ~enableAutoCommit) =>
            /\ BatchProcessed
            /\ committed' = HighestOffset' + 1
       /\ committed' >= committed
       /\ enableAutoCommit => lastTx'.commit = <<>>]_vars

\* with auto-commit disabled a second batch has moved the position on
C33_Witness ==
    /\ ~enableAutoCommit
    /\ Len(lastTx.offsets) >= 1
    /\ lastTx.offsets[1] >= 1
    /\ committed = HighestOffset + 1

(* --------------------- claims: persistence order ----------------------- *)

\* the statements of the last transaction issued for the message at offset o
StatementsFor(o) == SelectSeq(lastTx.log, LAMBDA e : e.msg = o)

\* the k-th statement saveOrderToDB is to issue for the document
ExpectedStmt(d, k) ==
    IF k = 1 THEN "order"
    ELSE IF k = 2 THEN "delivery"
    ELSE IF k = 3 THEN "payment"
    ELSE IF k = 4 THEN "delete"
    ELSE "item"

\* the statement carries the argument the document gives it: the order_uid,
\* the transaction key, the chrt_id of the item in document order, and for
\* delivery and delete the id the order upsert has returned
ExpectedArg(d, L, k) ==
    IF k = 1 THEN L[k].arg = d.order_uid
    ELSE IF k = 3 THEN L[k].arg = d.payment.transaction
    ELSE IF k > 4 THEN L[k].arg = d.items[k - 4].chrt_id
    ELSE \A r \in store.order : r.order_uid = d.order_uid => L[k].arg = r.id

\* the statements of one message: a prefix of the fixed sequence that ends
\* early only behind a failed statement
InFixedOrder(d, L) ==
    /\ Len(L) >= 1
    /\ Len(L) <= 4 + Len(d.items)
    /\ \A k \in 1..Len(L) : L[k].stmt = ExpectedStmt(d, k) /\ ExpectedArg(d, L, k)
    /\ \A k \in 1..(Len(L) - 1) : ~L[k].err
    /\ Len(L) >= 4 => L[4].arg = L[2].arg
    /\ Len(L) < 4 + Len(d.items) => L[Len(L)].err

\* C34: the statements of a message are issued in the fixed order: order
\* upsert, delivery upsert by the id obtained, payment upsert by transaction
\* key, delete of the items of that id, insert of the new items in document
\* order; a failed statement stops the remaining ones of that message; and
\* all statements of one message precede all statements of the next.
C34_PersistenceOrder ==
    /\ \A i \in 1..Len(lastTx.offsets) :
          (IsValid(LastBatch(i).value) /\ lastTx.err # "begin") =>
              InFixedOrder(LastBatch(i).value.doc, StatementsFor(lastTx.offsets[i]))
    /\ \A j, k \in 1..Len(lastTx.log) :
          j < k => lastTx.log[j].msg <= lastTx.log[k].msg

\* a message stopped behind a failed statement and the next message of the
\* batch went on to issue its own
C34_Witness ==
    \E j, k \in 1..Len(lastTx.log) :
        /\ j < k
        /\ lastTx.log[j].err
        /\ lastTx.log[j].stmt = "payment"
        /\ lastTx.log[j].msg < lastTx.log[k].msg

(* ------------------------- claims: redelivery -------------------------- *)

\* the store after the first n messages of the topic were processed once,
\* one by one, starting from the empty store
RECURSIVE ProcessedOnce(_)
ProcessedOnce(n) ==
    IF n = 0 THEN EmptyDB
    ELSE processMessageBatch(ProcessedOnce(n - 1), Messages(n - 1, n - 1), NoFault).store

\* what the store holds, generated ids left aside: each order with its
\* delivery rows, its payment rows and its items in id order
Content(db) ==
    {[order_uid |-> r.order_uid, track_number |-> r.track_number, sm_id |-> r.sm_id,
      deliveries |-> {[name |-> d.name] : d \in {x \in db.delivery : x.order_id = r.id}},
      payments |-> {[transaction |-> q.transaction, amount |-> q.amount] :
                       q \in {x \in db.payment : x.order_id = r.id}},
      items |-> itemsOrderedByID({x \in db.item : x.order_id = r.id})] : r \in db.order}

SameRowCounts(db, other) ==
    /\ Cardinality(db.order) = Cardinality(other.order)
    /\ Cardinality(db.delivery) = Cardinality(other.delivery)
    /\ Cardinality(db.payment) = Cardinality(other.payment)
    /\ Cardinality(db.item) = Cardinality(other.item)

\* C35: processing a sequence of valid messages and then processing it (or
\* a tail of it) again leaves the store with the same order, delivery,
\* payment and item contents, generated ids aside, as processing it once,
\* and with no additional row in any table.
C35_RedeliveryHarmless ==
    position = Len(topic) =>
        /\ Content(store) = Content(ProcessedOnce(Len(topic)))
        /\ SameRowCounts(store, ProcessedOnce(Len(topic)))

\* two messages with items have been processed a second time
C35_Witness ==
    /\ position = Len(topic)
    /\ Len(topic) >= 2
    /\ Len(lastTx.offsets) = 2
    /\ store.item # {}
    /\ store.itemSeq > ProcessedOnce(Len(topic)).itemSeq

(* --------------------- claims: read transaction ------------------------ *)

\* the last lookup missed the cache and went to the store
StoreFallback == lastRead.level # "none" /\ lastRead.storeErr # "skipped"

\* C36: a store-fallback lookup begins one store transaction and ends it
\* exactly once: by commit when the order and its sub-objects were read, by
\* rollback on every failure path; no transaction is open after the lookup
\* has returned, and nothing is written to the cache when the store read
\* did not succeed.
C36_ReadTransactionEnded ==
    StoreFallback =>
        /\ lastRead.tx.begins = 1
        /\ lastRead.tx.state # "open"
        /\ lastRead.fault.store # "begin" => lastRead.tx.ends = 1
        /\ lastRead.storeErr = "none" <=> lastRead.tx.state = "committed"
        /\ (lastRead.storeErr # "none" /\ lastRead.fault.store \notin {"begin", "commit"})
              => lastRead.tx.state = "rolledback"
        /\ lastRead.storeErr # "none" =>
              /\ lastRead.set = "none"
              /\ lastRead.entryAfter \in {lastRead.entryBefore, NoEntry}

\* the delivery query of a lookup failed and its transaction was rolled back
C36_Witness ==
    /\ StoreFallback
    /\ lastRead.fault.store = "delivery"
    /\ lastRead.rowBefore
    /\ lastRead.tx.state = "rolledback"

(* ---------------------- claims: producer shutdown ---------------------- *)

\* how often the call was made on the producer
Calls(call) == Cardinality({i \in 1..Len(closeLog) : closeLog[i] = call})

\* C37: the drain task is counted exactly once in the producer's WaitGroup
\* (the counter never becomes negative), Close returns only after the drain
\* task has stopped, and several calls of Close, also concurrent ones, flush
\* and close exactly once without a panic.
C37_ProducerShutdownClean ==
    /\ pwg >= 0
    /\ ~panicked
    /\ \A c \in Closers : closePc[c] = "returned" => drainPc = "done"
    /\ Calls("Flush") <= 1 /\ Calls("Close") <= 1 /\ Calls("close(deliveryChan)") <= 1
    /\ (\E c \in Closers : closePc[c] = "returned") =>
          Calls("Flush") = 1 /\ Calls("Close") = 1

(* ---------------- claims: validator errors and responses --------------- *)

Validators == {"ValidateOrderRequest", "ValidateMainOrder", "ValidateDelivery",
               "ValidatePayment", "ValidateItems", "ValidateOrderUID"}

\* C38: every non-nil error a validator returns belongs to the category
\* ErrValidation (errors.Is(err, ErrValidation) holds), for every violated
\* rule and at every nesting level.
C38_ValidatorErrorsTyped ==
    (applied.fn \in Validators /\ ~applied.result.nil) =>
        errorsIs(applied.result, ErrValidation)

\* the error of ValidateMainOrder for a date_created in the future
FutureDateError == Errorf(ErrValidation, ": date_created cannot be in the future")

\* the error of ValidateMainOrder for the zero date_created
ZeroDateError == Errorf(ErrValidation, ": date_created is required")

\* C39: ValidateOrderRequest rejects every document whose date_created is
\* later than the current time, by any amount, and every document whose
\* date_created is the zero time; a document with date_created at or before
\* now passes this check.
C39_FutureDateRejected ==
    applied.fn = "ValidateOrderRequest" =>
        /\ After(applied.arg.date_created, applied.now) => ~applied.result.nil
        /\ IsZero(applied.arg.date_created) => ~applied.result.nil
        /\ (~IsZero(applied.arg.date_created)
              /\ ~After(applied.arg.date_created, applied.now)) =>
                 applied.result \notin {FutureDateError, ZeroDateError}

\* the response the error belongs to by its category
ByCategory(err) ==
    IF errorsIs(err, ErrNotFound)
    THEN BadResponse(StatusNotFound, "order not found")
    ELSE IF errorsIs(err, ErrValidation)
    THEN BadResponse(StatusBadRequest, "invalid request data")
    ELSE BadResponse(StatusInternalServerError, "internal server error")

\* C40: ResponseErrorAndLog answers an error that is or wraps ErrNotFound
\* with 404 "order not found", one that is or wraps ErrValidation with 400
\* "invalid request data" and any other error with 500 "internal server
\* error"; the status field of the body equals the HTTP status code.
C40_ResponseByCategory ==
    applied.fn = "ResponseErrorAndLog" =>
        /\ applied.result = ByCategory(applied.arg)
        /\ applied.result.body.status = applied.result.status
====
